---------------------------- MODULE Spec2Model ----------------------------
(***************************************************************************)
(* A model of the debt-risk classification core: the case source, the      *)
(* preprocessor, the two classifiers, the decision ledger (ResultStorage)  *)
(* and the pipeline orchestrator (RiskClassificationPipeline).             *)
(*                                                                         *)
(* Python values are tagged records: Str("x"), Num(3), Float(70) (a float  *)
(* in hundredths), None, List(<<...>>), Dict(f).  Texts are TLA+ strings,  *)
(* worked on character by character with SubSeq.  An operation that may    *)
(* raise yields Ok(v) or Raise(type, message).                             *)
(***************************************************************************)
EXTENDS Integers, Sequences, FiniteSets, TLC

VARIABLES
    results,    \* ResultStorage.results: the in-memory ledger
    disk,       \* the backing document decisions.json
    issued,     \* history: the decision ids store_decision has returned
    io_failures,\* history: the writes of the backing file that have failed
    demo_mode,  \* RiskClassificationPipeline.demo_mode
    loaded_cases, \* CaseFetcher.cases: the case source as loaded
    calls,      \* the store_decision calls in flight, one slot per writer
    replica,    \* a second ResultStorage constructed over the same document
    last        \* the last call made and what it returned

vars == <<results, disk, issued, io_failures, demo_mode, loaded_cases, calls, replica, last>>

----------------------------------------------------------------------------
(* Python values *)

Str(s) == [t |-> "str", v |-> s]
Num(n) == [t |-> "int", v |-> n]
Float(h) == [t |-> "float", v |-> h]
None == [t |-> "none"]
List(xs) == [t |-> "list", v |-> xs]
Dict(f) == [t |-> "dict", v |-> f]

IsStr(x) == x.t = "str"
IsNumber(x) == x.t \in {"int", "float"}
IsDict(x) == x.t = "dict"

Ok(v) == [ok |-> TRUE, val |-> v]
Raise(type, message) == [ok |-> FALSE, type |-> type, msg |-> message]

\* d.get(k): the value under k, None when the key is missing
Get(d, k) == IF k \in DOMAIN d THEN d[k] ELSE None

\* d.get(k, default)
GetOr(d, k, default) == IF k \in DOMAIN d THEN d[k] ELSE default

\* d[k] = v
Put(d, k, v) == [x \in (DOMAIN d) \cup {k} |-> IF x = k THEN v ELSE d[x]]

\* type(x).__name__, as Python's error messages print it
TypeName(x) == IF x.t = "none" THEN "NoneType" ELSE x.t

----------------------------------------------------------------------------
(* Texts *)

LowerLetters == "abcdefghijklmnopqrstuvwxyz"
UpperLetters == "ABCDEFGHIJKLMNOPQRSTUVWXYZ"

CharAt(s, i) == SubSeq(s, i, i)

IndexIn(c, alphabet) ==
    IF \E i \in 1..Len(alphabet) : CharAt(alphabet, i) = c
    THEN CHOOSE i \in 1..Len(alphabet) : CharAt(alphabet, i) = c
    ELSE 0

\* the upper-case and the lower-case form of each letter
ToUpper ==
    [c \in {CharAt(LowerLetters, i) : i \in 1..Len(LowerLetters)} |->
        CharAt(UpperLetters, IndexIn(c, LowerLetters))]

ToLower ==
    [c \in {CharAt(UpperLetters, i) : i \in 1..Len(UpperLetters)} |->
        CharAt(LowerLetters, IndexIn(c, UpperLetters))]

UpperChar(c) == IF c \in DOMAIN ToUpper THEN ToUpper[c] ELSE c

LowerChar(c) == IF c \in DOMAIN ToLower THEN ToLower[c] ELSE c

\* str.upper(): the characters lo..hi of s, each in upper case
Upper(s) ==
    LET up[r \in (1..(Len(s) + 1)) \X (0..Len(s))] ==
            IF r[1] > r[2] THEN ""
            ELSE IF r[1] = r[2] THEN UpperChar(CharAt(s, r[1]))
            ELSE up[<<r[1], (r[1] + r[2]) \div 2>>]
                 \o up[<<(r[1] + r[2]) \div 2 + 1, r[2]>>]
    IN up[<<1, Len(s)>>]

\* a text left as written
Lower_AsWritten(s) == s

\* str.lower()
Lower(s) ==
    LET low[r \in (1..(Len(s) + 1)) \X (0..Len(s))] ==
            IF r[1] > r[2] THEN ""
            ELSE IF r[1] = r[2] THEN LowerChar(CharAt(s, r[1]))
            ELSE low[<<r[1], (r[1] + r[2]) \div 2>>]
                 \o low[<<(r[1] + r[2]) \div 2 + 1, r[2]>>]
    IN low[<<1, Len(s)>>]

\* pat in s
Contains(s, pat) ==
    \E i \in 1..(Len(s) - Len(pat) + 1) : SubSeq(s, i, i + Len(pat) - 1) = pat

StartsWith(s, pat) == Len(pat) <= Len(s) /\ SubSeq(s, 1, Len(pat)) = pat
EndsWith(s, pat) ==
    Len(pat) <= Len(s) /\ SubSeq(s, Len(s) - Len(pat) + 1, Len(s)) = pat

IsSpace(c) == c \in {" ", "\n", "\t", "\r"}

\* str.lstrip(), str.rstrip(), str.strip()
LStrip(s) ==
    LET k == IF \E i \in 1..Len(s) : ~IsSpace(CharAt(s, i))
             THEN CHOOSE i \in 1..Len(s) :
                    /\ ~IsSpace(CharAt(s, i))
                    /\ \A j \in 1..(i - 1) : IsSpace(CharAt(s, j))
             ELSE Len(s) + 1
    IN SubSeq(s, k, Len(s))

RStrip(s) ==
    LET k == IF \E i \in 1..Len(s) : ~IsSpace(CharAt(s, i))
             THEN CHOOSE i \in 1..Len(s) :
                    /\ ~IsSpace(CharAt(s, i))
                    /\ \A j \in (i + 1)..Len(s) : IsSpace(CharAt(s, j))
             ELSE 0
    IN SubSeq(s, 1, k)

Strip(s) == RStrip(LStrip(s))

----------------------------------------------------------------------------
(* Number formatting *)

DigitChars == "0123456789"

\* str(n) for n >= 0
RECURSIVE Decimal(_)
Decimal(n) ==
    IF n < 10 THEN CharAt(DigitChars, n + 1)
    ELSE Decimal(n \div 10) \o CharAt(DigitChars, (n % 10) + 1)

RECURSIVE ZeroPad(_, _)
ZeroPad(s, width) == IF Len(s) >= width THEN s ELSE ZeroPad("0" \o s, width)

\* the width of the number in a decision id: f"{n:05d}"
IdWidth == 5

\* the identifier without its zero padding
FormatDecisionId_Unpadded(n) == "DEC" \o Decimal(n)

\* f"DEC{n:05d}"
FormatDecisionId(n) == "DEC" \o ZeroPad(Decimal(n), IdWidth)

\* The number a decision id names; 0 when the text is no decision id.
RECURSIVE DigitsValue(_)
DigitsValue(s) ==
    IF Len(s) = 0 THEN 0
    ELSE 10 * DigitsValue(SubSeq(s, 1, Len(s) - 1))
            + (IndexIn(CharAt(s, Len(s)), DigitChars) - 1)

IsDecisionId(s) ==
    /\ StartsWith(s, "DEC")
    /\ Len(s) >= 3 + IdWidth
    /\ \A i \in 4..Len(s) : IndexIn(CharAt(s, i), DigitChars) > 0

IdNumber(s) == IF IsDecisionId(s) THEN DigitsValue(SubSeq(s, 4, Len(s))) ELSE 0

----------------------------------------------------------------------------
(* The decision ledger: ResultStorage *)

\* The most records the ledger is let grow to.
MaxLedger == 2

\* What datetime.now().isoformat() may return: the clock is the environment's.
Timestamps == {"2025-01-02T10:00:00", "2025-01-01T09:00:00"}

\* the clock readings of the pipeline runs
PipelineTimestamps == {"2025-01-03T12:00:00"}

\* How a write of the backing file may end.
IoOutcomes == {"ok", "open_error", "write_error"}

\* The most writes of the backing file that are let fail.
MaxIoFailures == 1

Document(records) == [kind |-> "doc", doc |-> records]
Corrupt == [kind |-> "corrupt"]

\* a save that returns without having written
SaveResults_Deferred(records, dsk, io) ==
    CASE io = "ok" ->
           [disk |-> dsk, ret |-> Ok(None)]
      [] io = "open_error" ->
           [disk |-> dsk, ret |-> Raise("PermissionError", "[Errno 13] Permission denied")]
      [] OTHER ->
           [disk |-> Corrupt, ret |-> Raise("OSError", "[Errno 28] No space left on device")]

\* _save_results: open(path, 'w') then json.dump.  A failed open leaves the
\* file alone; a failed dump leaves it truncated.
SaveResults(records, dsk, io) ==
    CASE io = "ok" ->
           [disk |-> Document(records), ret |-> Ok(None)]
      [] io = "open_error" ->
           [disk |-> dsk, ret |-> Raise("PermissionError", "[Errno 13] Permission denied")]
      [] OTHER ->
           [disk |-> Corrupt, ret |-> Raise("OSError", "[Errno 28] No space left on device")]

\* a record numbered by the count alone, without the one added
DecisionRecord_CountOnly(records, case_id, customer_name, raw_case_data, classification_result, ts) ==
    [decision_id |-> FormatDecisionId(Len(records)),
     case_id |-> case_id,
     customer_name |-> customer_name,
     timestamp |-> ts,
     input_data |->
        [amount |-> Get(raw_case_data, "amount"),
         days_overdue |-> Get(raw_case_data, "days_overdue"),
         past_attempts |-> Get(raw_case_data, "past_attempts"),
         customer_type |-> Get(raw_case_data, "customer_type"),
         loan_type |-> Get(raw_case_data, "loan_type")],
     ai_decision |->
        [risk_level |-> Get(classification_result, "risk_level"),
         confidence |-> Get(classification_result, "confidence"),
         reason |-> Get(classification_result, "reason"),
         recommended_action |-> Get(classification_result, "recommended_action")],
     status |-> "pending_review"]

\* The record store_decision builds.
DecisionRecord(records, case_id, customer_name, raw_case_data, classification_result, ts) ==
    [decision_id |-> FormatDecisionId(Len(records) + 1),
     case_id |-> case_id,
     customer_name |-> customer_name,
     timestamp |-> ts,
     input_data |->
        [amount |-> Get(raw_case_data, "amount"),
         days_overdue |-> Get(raw_case_data, "days_overdue"),
         past_attempts |-> Get(raw_case_data, "past_attempts"),
         customer_type |-> Get(raw_case_data, "customer_type"),
         loan_type |-> Get(raw_case_data, "loan_type")],
     ai_decision |->
        [risk_level |-> Get(classification_result, "risk_level"),
         confidence |-> Get(classification_result, "confidence"),
         reason |-> Get(classification_result, "reason"),
         recommended_action |-> Get(classification_result, "recommended_action")],
     status |-> "pending_review"]

\* the new record put in front of the ledger instead of at its end
AppendRecord_Front(records, rec) == <<rec>> \o records

\* The ledger after results.append(decision_record).
AppendRecord(records, rec) == Append(records, rec)

\* a store that reads the file again before it appends
StoreDecisionCall_Reloading(records, dsk, case_id, customer_name, raw_case_data, classification_result, ts, io) ==
    LET reloaded == IF dsk.kind = "doc" THEN dsk.doc ELSE records
        rec == DecisionRecord(reloaded, case_id, customer_name, raw_case_data,
                              classification_result, ts)
        appended == AppendRecord(reloaded, rec)
        saved == SaveResults(appended, dsk, io)
    IN [results |-> appended,
        disk |-> saved.disk,
        ret |-> IF saved.ret.ok THEN Ok(rec) ELSE saved.ret]

\* a store that appends and saves, and then does both once more
StoreDecisionCall_Twice(records, dsk, case_id, customer_name, raw_case_data, classification_result, ts, io) ==
    LET rec == DecisionRecord(records, case_id, customer_name, raw_case_data,
                              classification_result, ts)
        appended == AppendRecord(AppendRecord(records, rec), rec)
        saved == SaveResults(appended, dsk, io)
    IN [results |-> appended,
        disk |-> saved.disk,
        ret |-> IF saved.ret.ok THEN Ok(rec) ELSE saved.ret]

\* a store that keeps the new record only
StoreDecisionCall_Replacing(records, dsk, case_id, customer_name, raw_case_data, classification_result, ts, io) ==
    LET rec == DecisionRecord(records, case_id, customer_name, raw_case_data,
                              classification_result, ts)
        saved == SaveResults(<<rec>>, dsk, io)
    IN [results |-> <<rec>>,
        disk |-> saved.disk,
        ret |-> IF saved.ret.ok THEN Ok(rec) ELSE saved.ret]

\* store_decision: build the record, append it, save, return it.  When the
\* save raises, the append has already happened.
StoreDecisionCall(records, dsk, case_id, customer_name, raw_case_data, classification_result, ts, io) ==
    LET rec == DecisionRecord(records, case_id, customer_name, raw_case_data,
                              classification_result, ts)
        appended == AppendRecord(records, rec)
        saved == SaveResults(appended, dsk, io)
    IN [results |-> appended,
        disk |-> saved.disk,
        ret |-> IF saved.ret.ok THEN Ok(rec) ELSE saved.ret]

\* clear_all: empty the list, then save.
ClearAllCall(records, dsk, io) ==
    LET saved == SaveResults(<<>>, dsk, io)
    IN [results |-> <<>>, disk |-> saved.disk, ret |-> saved.ret]

\* what else the backing file can be when a ledger is constructed: absent,
\* present but not open to reading, or holding bytes that are no UTF-8 text
Missing == [kind |-> "missing"]
Unreadable == [kind |-> "unreadable"]
Garbled == [kind |-> "garbled"]

\* _ensure_storage_exists: an absent file is created holding the empty list
EnsureStorageExists(dsk) ==
    IF dsk.kind = "missing" THEN Document(<<>>) ELSE dsk

\* _load_results: open(path, 'r') then json.load.  Only FileNotFoundError and
\* json.JSONDecodeError are caught.
LoadResults(dsk) ==
    CASE dsk.kind = "doc" -> Ok(dsk.doc)
      [] dsk.kind = "corrupt" -> Ok(<<>>)
      [] dsk.kind = "missing" -> Ok(<<>>)
      [] dsk.kind = "unreadable" ->
           Raise("PermissionError", "[Errno 13] Permission denied")
      [] OTHER ->
           Raise("UnicodeDecodeError", "'utf-8' codec can't decode byte 0xff in position 0: invalid start byte")

\* ResultStorage.__init__
ConstructCall(dsk) ==
    LET ensured == EnsureStorageExists(dsk)
        loaded == LoadResults(ensured)
    IN [results |-> IF loaded.ok THEN loaded.val ELSE <<>>,
        disk |-> ensured,
        ret |-> IF loaded.ok THEN Ok(None) ELSE loaded]

\* get_all_decisions
GetAllDecisionsCall(records) == records

\* get_decision_by_case
GetDecisionByCase(records, case_id) ==
    LET keep(d) == d.case_id = case_id
    IN SelectSeq(records, keep)

\* the earliest-appended decision of a case
GetLatestDecision_First(records, case_id) ==
    LET case_decisions == GetDecisionByCase(records, case_id)
    IN IF case_decisions # <<>>
       THEN Dict(case_decisions[1])
       ELSE None

\* get_latest_decision
GetLatestDecision(records, case_id) ==
    LET case_decisions == GetDecisionByCase(records, case_id)
    IN IF case_decisions # <<>>
       THEN Dict(case_decisions[Len(case_decisions)])
       ELSE None

\* a selection by risk level that ignores the letter case
GetDecisionsByRisk_AnyCase(records, risk_level) ==
    LET keep(d) == Upper(d.ai_decision.risk_level.v) = Upper(risk_level.v)
    IN SelectSeq(records, keep)

\* get_decisions_by_risk
GetDecisionsByRisk(records, risk_level) ==
    LET keep(d) == d.ai_decision.risk_level = risk_level
    IN SelectSeq(records, keep)

\* a percentage in tenths, always rounded up
PercentageTenths_Up(count, total) == ((count * 1000) + total - 1) \div total

\* round(count/total * 100, 1), in tenths of a percent: to the nearest tenth,
\* an exact half going to the even tenth.
PercentageTenths(count, total) ==
    LET q == (count * 1000) \div total
        r == (count * 1000) % total
    IN IF 2 * r > total THEN q + 1
       ELSE IF 2 * r < total THEN q
       ELSE IF q % 2 = 0 THEN q ELSE q + 1

\* statistics that carry the percentage keys for an empty ledger too
GetStatisticsCall_WithPercentages(records) ==
    LET total == Len(records)
        high == Len(GetDecisionsByRisk(records, Str("HIGH")))
        medium == Len(GetDecisionsByRisk(records, Str("MEDIUM")))
        low == Len(GetDecisionsByRisk(records, Str("LOW")))
    IN IF total = 0
       THEN [total |-> 0, high |-> 0, medium |-> 0, low |-> 0,
             high_percentage |-> 0, medium_percentage |-> 0, low_percentage |-> 0]
       ELSE [total |-> total, high |-> high, medium |-> medium, low |-> low,
             high_percentage |-> PercentageTenths(high, total),
             medium_percentage |-> PercentageTenths(medium, total),
             low_percentage |-> PercentageTenths(low, total)]

\* get_statistics
GetStatisticsCall(records) ==
    LET total == Len(records)
        high == Len(GetDecisionsByRisk(records, Str("HIGH")))
        medium == Len(GetDecisionsByRisk(records, Str("MEDIUM")))
        low == Len(GetDecisionsByRisk(records, Str("LOW")))
    IN IF total = 0
       THEN [total |-> 0, high |-> 0, medium |-> 0, low |-> 0]
       ELSE [total |-> total, high |-> high, medium |-> medium, low |-> low,
             high_percentage |-> PercentageTenths(high, total),
             medium_percentage |-> PercentageTenths(medium, total),
             low_percentage |-> PercentageTenths(low, total)]

----------------------------------------------------------------------------
(* The case source: CaseFetcher *)

CaseLow ==
    [case_id |-> Str("CASE004"), customer_name |-> Str("Priya Patel"),
     amount |-> Num(15000), days_overdue |-> Num(5), past_attempts |-> Num(0),
     customer_type |-> Str("Individual"), loan_type |-> Str("Credit Card")]

CaseHigh ==
    [case_id |-> Str("CASE003"), customer_name |-> Str("ABC Enterprises"),
     amount |-> Num(600000), days_overdue |-> Num(150), past_attempts |-> Num(9),
     customer_type |-> Str("Business"), loan_type |-> Str("Business Loan")]

\* a record whose days_overdue is null in the source
CaseNullDays ==
    [case_id |-> Str("CASE010"), customer_name |-> Str("Vikram Singh"),
     amount |-> Num(45000), days_overdue |-> None, past_attempts |-> Num(2),
     customer_type |-> Str("Individual"), loan_type |-> Str("Personal Loan")]

\* a record with no customer_name
CaseNoName ==
    [case_id |-> Str("CASE011"),
     amount |-> Num(120000), days_overdue |-> Num(60), past_attempts |-> Num(4),
     customer_type |-> Str("Business"), loan_type |-> Str("Gold Loan")]

\* CaseFetcher.cases: the records _load_database read
Cases == <<CaseLow, CaseHigh, CaseNullDays, CaseNoName>>

\* the ids a caller may ask for: those of the source, and one it does not hold
UnknownId == Str("UNKNOWN_ID")
CaseIdInputs == {Get(Cases[i], "case_id") : i \in 1..Len(Cases)} \cup {UnknownId}

\* get_all_cases
GetAllCasesCall(cases) == cases

\* get_case_by_id: the first record with that id, None when there is none
GetCaseById(cases, case_id) ==
    IF \E i \in 1..Len(cases) : Get(cases[i], "case_id") = case_id
    THEN LET i == CHOOSE k \in 1..Len(cases) :
                    /\ Get(cases[k], "case_id") = case_id
                    /\ \A j \in 1..(k - 1) : Get(cases[j], "case_id") # case_id
         IN Dict(cases[i])
    ELSE None

\* get_case_ids
GetCaseIds(cases) == [i \in 1..Len(cases) |-> Get(cases[i], "case_id")]

----------------------------------------------------------------------------
(* The preprocessor: CasePreprocessor *)

\* amount_thresholds
AmountLow == 20000
AmountMedium == 100000
AmountHigh == 500000

\* overdue_thresholds
OverdueRecent == 15
OverdueModerate == 45
OverdueLong == 90

\* attempts_thresholds
AttemptsNone == 0
AttemptsFew == 2
AttemptsMultiple == 5

\* the currency sign the texts carry
Rupee == "Rs"

\* format(x): what an f-string field prints for a value
Format(x) ==
    CASE x.t = "str" -> x.v
      [] x.t = "int" -> Decimal(x.v)
      [] OTHER -> "None"

\* f"{n:,.0f}": the digits in groups of three
RECURSIVE GroupThousands(_)
GroupThousands(n) ==
    IF n < 1000 THEN Decimal(n)
    ELSE GroupThousands(n \div 1000) \o "," \o ZeroPad(Decimal(n % 1000), 3)

\* what x < n and x <= n raise when x is no number
NotOrdered(op, x) ==
    Raise("TypeError", "'" \o op \o "' not supported between instances of '"
                       \o TypeName(x) \o "' and 'int'")

\* the amount texts with no Medium bucket
CategorizeAmount_NoMedium(amount) ==
    IF amount.t # "int" THEN NotOrdered("<", amount)
    ELSE IF amount.v < AmountLow
         THEN Ok("Low amount (below " \o Rupee \o "20,000)")
    ELSE IF amount.v < AmountHigh
         THEN Ok("High amount (" \o Rupee \o "1,00,000 - " \o Rupee \o "5,00,000)")
    ELSE Ok("Very high amount (above " \o Rupee \o "5,00,000 - specifically "
            \o Rupee \o GroupThousands(amount.v) \o ")")

\* the amount texts with every bucket closed above
CategorizeAmount_Inclusive(amount) ==
    IF amount.t # "int" THEN NotOrdered("<", amount)
    ELSE IF amount.v <= AmountLow
         THEN Ok("Low amount (below " \o Rupee \o "20,000)")
    ELSE IF amount.v <= AmountMedium
         THEN Ok("Medium amount (" \o Rupee \o "20,000 - " \o Rupee \o "1,00,000)")
    ELSE IF amount.v <= AmountHigh
         THEN Ok("High amount (" \o Rupee \o "1,00,000 - " \o Rupee \o "5,00,000)")
    ELSE Ok("Very high amount (above " \o Rupee \o "5,00,000 - specifically "
            \o Rupee \o GroupThousands(amount.v) \o ")")

\* _categorize_amount
CategorizeAmount(amount) ==
    IF amount.t # "int" THEN NotOrdered("<", amount)
    ELSE IF amount.v < AmountLow
         THEN Ok("Low amount (below " \o Rupee \o "20,000)")
    ELSE IF amount.v < AmountMedium
         THEN Ok("Medium amount (" \o Rupee \o "20,000 - " \o Rupee \o "1,00,000)")
    ELSE IF amount.v < AmountHigh
         THEN Ok("High amount (" \o Rupee \o "1,00,000 - " \o Rupee \o "5,00,000)")
    ELSE Ok("Very high amount (above " \o Rupee \o "5,00,000 - specifically "
            \o Rupee \o GroupThousands(amount.v) \o ")")

\* the overdue texts with every bucket open above
CategorizeOverdue_Exclusive(days) ==
    IF days.t # "int" THEN NotOrdered("<=", days)
    ELSE IF days.v < OverdueRecent
         THEN Ok("Recently overdue (" \o Decimal(days.v) \o " days - within grace period)")
    ELSE IF days.v < OverdueModerate
         THEN Ok("Moderately overdue (" \o Decimal(days.v) \o " days - needs attention)")
    ELSE IF days.v < OverdueLong
         THEN Ok("Long overdue (" \o Decimal(days.v) \o " days - serious concern)")
    ELSE Ok("Critically overdue (" \o Decimal(days.v) \o " days - immediate action required)")

\* _categorize_overdue
CategorizeOverdue(days) ==
    IF days.t # "int" THEN NotOrdered("<=", days)
    ELSE IF days.v <= OverdueRecent
         THEN Ok("Recently overdue (" \o Decimal(days.v) \o " days - within grace period)")
    ELSE IF days.v <= OverdueModerate
         THEN Ok("Moderately overdue (" \o Decimal(days.v) \o " days - needs attention)")
    ELSE IF days.v <= OverdueLong
         THEN Ok("Long overdue (" \o Decimal(days.v) \o " days - serious concern)")
    ELSE Ok("Critically overdue (" \o Decimal(days.v) \o " days - immediate action required)")

\* attempts categorised with five of them counted as exhaustive
CategorizeAttempts_FiveExhaustive(attempts) ==
    IF attempts.t # "int" THEN NotOrdered("<=", attempts)
    ELSE IF attempts.v = AttemptsNone
         THEN Ok("No recovery attempts made yet")
    ELSE IF attempts.v <= AttemptsFew
         THEN Ok("Few recovery attempts (" \o Decimal(attempts.v) \o " attempts)")
    ELSE IF attempts.v < AttemptsMultiple
         THEN Ok("Multiple failed recovery attempts (" \o Decimal(attempts.v) \o " attempts)")
    ELSE Ok("Exhaustive recovery attempts failed (" \o Decimal(attempts.v)
            \o " attempts - customer unresponsive)")

\* _categorize_attempts
CategorizeAttempts(attempts) ==
    IF attempts.t # "int" THEN NotOrdered("<=", attempts)
    ELSE IF attempts.v = AttemptsNone
         THEN Ok("No recovery attempts made yet")
    ELSE IF attempts.v <= AttemptsFew
         THEN Ok("Few recovery attempts (" \o Decimal(attempts.v) \o " attempts)")
    ELSE IF attempts.v <= AttemptsMultiple
         THEN Ok("Multiple failed recovery attempts (" \o Decimal(attempts.v) \o " attempts)")
    ELSE Ok("Exhaustive recovery attempts failed (" \o Decimal(attempts.v)
            \o " attempts - customer unresponsive)")

\* _categorize_customer_type
CategorizeCustomerType(customer_type) ==
    IF customer_type.t # "str"
    THEN Raise("AttributeError", "'" \o TypeName(customer_type)
                                 \o "' object has no attribute 'lower'")
    ELSE IF Lower(customer_type.v) = "business"
         THEN Ok("Business customer (higher stakes, formal recovery process needed)")
         ELSE Ok("Individual customer (personal approach may work)")

\* _categorize_loan_type
CategorizeLoanType(loan_type) ==
    CASE loan_type = Str("Credit Card") ->
           Ok("Credit card debt (unsecured, typically smaller amounts)")
      [] loan_type = Str("Personal Loan") ->
           Ok("Personal loan (unsecured, medium priority)")
      [] loan_type = Str("Home Loan") ->
           Ok("Home loan (secured by property, high recovery priority)")
      [] loan_type = Str("Vehicle Loan") ->
           Ok("Vehicle loan (secured by vehicle, can be repossessed)")
      [] loan_type = Str("Business Loan") ->
           Ok("Business loan (complex recovery, may involve legal action)")
      [] OTHER -> Ok(Format(loan_type) \o " (standard recovery process)")

\* preprocess: the five texts are computed in this order; the first failure
\* is the one raised.
Preprocess(case) ==
    LET amount == CategorizeAmount(GetOr(case, "amount", Num(0)))
        overdue == CategorizeOverdue(GetOr(case, "days_overdue", Num(0)))
        attempts == CategorizeAttempts(GetOr(case, "past_attempts", Num(0)))
        customer == CategorizeCustomerType(GetOr(case, "customer_type", Str("Individual")))
        loan == CategorizeLoanType(GetOr(case, "loan_type", Str("Unknown")))
    IN IF ~amount.ok THEN amount
       ELSE IF ~overdue.ok THEN overdue
       ELSE IF ~attempts.ok THEN attempts
       ELSE IF ~customer.ok THEN customer
       ELSE IF ~loan.ok THEN loan
       ELSE Ok([case_id |-> Get(case, "case_id"),
                customer_name |-> Get(case, "customer_name"),
                raw_amount |-> Get(case, "amount"),
                raw_days_overdue |-> Get(case, "days_overdue"),
                raw_past_attempts |-> Get(case, "past_attempts"),
                amount_context |-> amount.val,
                overdue_context |-> overdue.val,
                attempts_context |-> attempts.val,
                customer_context |-> customer.val,
                loan_context |-> loan.val])

ContextRule == "=================================="

\* generate_prompt_context
GeneratePromptContext(p) ==
    "\nCASE DETAILS FOR RISK ASSESSMENT:\n" \o ContextRule
    \o "\nCase ID: " \o Format(p.case_id)
    \o "\nCustomer: " \o Format(p.customer_name)
    \o "\n\nFINANCIAL CONTEXT:\n- Amount: " \o p.amount_context
    \o "\n- Loan Type: " \o p.loan_context
    \o "\n\nOVERDUE STATUS:\n- Duration: " \o p.overdue_context
    \o "\n\nRECOVERY HISTORY:\n- Past Attempts: " \o p.attempts_context
    \o "\n\nCUSTOMER PROFILE:\n- Type: " \o p.customer_context
    \o "\n" \o ContextRule \o "\n"

----------------------------------------------------------------------------
(* JSON texts *)

\* the keys of a classification result, in the order the prompt lists them
ResultFields ==
    <<"risk_level", "confidence", "recovery_probability", "recovery_percentage",
      "reason", "recommended_action">>

Quote(s) == "\"" \o s \o "\""

RECURSIVE JoinTexts(_, _)
JoinTexts(texts, sep) ==
    IF Len(texts) = 0 THEN ""
    ELSE IF Len(texts) = 1 THEN texts[1]
    ELSE texts[1] \o sep \o JoinTexts(Tail(texts), sep)

\* The JSON text of a value.
RECURSIVE JsonDumps(_)
JsonDumps(x) ==
    CASE x.t = "str" -> Quote(x.v)
      [] x.t = "int" -> Decimal(x.v)
      [] x.t = "float" -> "0." \o ZeroPad(Decimal(x.v), 2)
      [] x.t = "none" -> "null"
      [] x.t = "list" -> "[" \o JoinTexts([i \in 1..Len(x.v) |-> JsonDumps(x.v[i])], ", ") \o "]"
      [] OTHER ->
           LET keys == SelectSeq(ResultFields, LAMBDA k : k \in DOMAIN x.v)
           IN "{" \o JoinTexts([i \in 1..Len(keys) |->
                                  Quote(keys[i]) \o ": " \o JsonDumps(x.v[keys[i]])], ", ")
                  \o "}"

\* A key the model left out.
Absent == [t |-> "absent"]

\* What the model may put under each key of the object it answers with.
RiskLevelOptions == {Absent, Str("HIGH"), Str("MEDIUM"), Str("LOW"), Str("low"), Num(3)}
ConfidenceOptions == {Absent, Float(95)}
ProbabilityOptions ==
    {Absent, Str("VERY HIGH"), Str("HIGH"), Str("MODERATE"), Str("LOW"),
     Str("VERY LOW"), Str("high"), List(<<>>)}
PercentageOptions == {Absent, Num(90)}
ReasonOptions == {Absent, Str("Overdue for long.")}
ActionOptions == {Absent, Str("Call the customer.")}

ObjectOf(rl, cf, pb, pc, rs, ac) ==
    LET given == [risk_level |-> rl, confidence |-> cf, recovery_probability |-> pb,
                  recovery_percentage |-> pc, reason |-> rs, recommended_action |-> ac]
    IN Dict([k \in {f \in DOMAIN given : given[f] # Absent} |-> given[k]])

JsonObjects ==
    {ObjectOf(rl, cf, pb, pc, rs, ac) :
        rl \in RiskLevelOptions, cf \in ConfidenceOptions, pb \in ProbabilityOptions,
        pc \in PercentageOptions, rs \in ReasonOptions, ac \in ActionOptions}

\* a text that names every key of a result
AllKeysText == JoinTexts(ResultFields, " ")

\* JSON documents that are no object
JsonScalars ==
    {Str("HIGH"), Str(AllKeysText), Num(7), None, List(<<>>),
     List([i \in 1..Len(ResultFields) |-> Str(ResultFields[i])])}

\* The JSON documents the decoder knows.
JsonDocuments == JsonObjects \cup JsonScalars

\* the JSON text of each document, paired with the document
JsonTexts == {<<JsonDumps(x), x>> : x \in JsonDocuments}

JsonText == [x \in JsonDocuments |-> JsonDumps(x)]

\* json.loads: the document the text is the JSON text of; JSONDecodeError
\* when it is the text of none.
JsonLoads(text) ==
    IF \E p \in JsonTexts : p[1] = text
    THEN Ok((CHOOSE p \in JsonTexts : p[1] = text)[2])
    ELSE Raise("JSONDecodeError", "Expecting value: line 1 column 1 (char 0)")

----------------------------------------------------------------------------
(* The LLM-backed classifier: GeminiRiskClassifier *)

\* The backquote, written ~ here: a TLA+ string cannot hold the character.
Backquote == "~"

\* the marker of a markdown code block
Fence == Backquote \o Backquote \o Backquote

\* re.sub(r'^<fence>json\s*', '', s)
StripJsonFence(s) ==
    IF StartsWith(s, Fence \o "json")
    THEN LStrip(SubSeq(s, Len(Fence) + 5, Len(s)))
    ELSE s

\* re.sub(r'^<fence>\s*', '', s)
StripOpenFence(s) ==
    IF StartsWith(s, Fence) THEN LStrip(SubSeq(s, Len(Fence) + 1, Len(s))) ELSE s

\* re.sub(r'\s*<fence>$', '', s)
StripCloseFence(s) ==
    IF EndsWith(s, Fence) THEN RStrip(SubSeq(s, 1, Len(s) - Len(Fence))) ELSE s

\* the cleaning _parse_response does before decoding
CleanResponse(response_text) ==
    Strip(StripCloseFence(StripOpenFence(StripJsonFence(Strip(response_text)))))

\* key in result, for whatever the document decoded to
HasKey(result, key) ==
    CASE result.t = "dict" -> Ok(key \in DOMAIN result.v)
      [] result.t = "str" -> Ok(Contains(result.v, key))
      [] result.t = "list" -> Ok(\E i \in 1..Len(result.v) : result.v[i] = Str(key))
      [] OTHER -> Raise("TypeError", "argument of type '" \o TypeName(result)
                                     \o "' is not iterable")

\* result[key] = value
SetItem(result, key, value) ==
    CASE result.t = "dict" -> Ok(Dict(Put(result.v, key, value)))
      [] result.t = "list" ->
           Raise("TypeError", "list indices must be integers or slices, not str")
      [] OTHER -> Raise("TypeError", "'" \o TypeName(result)
                                     \o "' object does not support item assignment")

\* result.get(key, default)
ResultGet(result, key, default) ==
    IF result.t = "dict" THEN Ok(GetOr(result.v, key, default))
    ELSE Raise("AttributeError", "'" \o TypeName(result)
                                 \o "' object has no attribute 'get'")

\* if key not in result: result[key] = default
EnsureField(res, key, default) ==
    IF ~res.ok THEN res
    ELSE LET has == HasKey(res.val, key)
         IN IF ~has.ok THEN has
            ELSE IF has.val THEN res
            ELSE SetItem(res.val, key, default)

\* the recovery probability inferred from the risk level
InferProbability(risk) ==
    IF risk = "LOW" THEN "HIGH" ELSE IF risk = "MEDIUM" THEN "MODERATE" ELSE "LOW"

\* if "recovery_probability" not in result: infer it from risk_level.upper()
EnsureProbability(res) ==
    IF ~res.ok THEN res
    ELSE LET has == HasKey(res.val, "recovery_probability")
             level == ResultGet(res.val, "risk_level", Str("MEDIUM"))
         IN IF ~has.ok THEN has
            ELSE IF has.val THEN res
            ELSE IF ~level.ok THEN level
            ELSE IF level.val.t # "str"
                 THEN Raise("AttributeError", "'" \o TypeName(level.val)
                                              \o "' object has no attribute 'upper'")
            ELSE SetItem(res.val, "recovery_probability",
                         Str(InferProbability(Upper(level.val.v))))

\* a percentage table with HIGH and MODERATE exchanged
ProbMap_Swapped(probability) ==
    CASE probability = Str("VERY HIGH") -> Ok(Num(85))
      [] probability = Str("HIGH") -> Ok(Num(50))
      [] probability = Str("MODERATE") -> Ok(Num(70))
      [] probability = Str("LOW") -> Ok(Num(30))
      [] probability = Str("VERY LOW") -> Ok(Num(15))
      [] probability.t \in {"list", "dict"} ->
           Raise("TypeError", "unhashable type: '" \o TypeName(probability) \o "'")
      [] OTHER -> Ok(Num(50))

\* prob_map.get(probability, 50)
ProbMap(probability) ==
    CASE probability = Str("VERY HIGH") -> Ok(Num(85))
      [] probability = Str("HIGH") -> Ok(Num(70))
      [] probability = Str("MODERATE") -> Ok(Num(50))
      [] probability = Str("LOW") -> Ok(Num(30))
      [] probability = Str("VERY LOW") -> Ok(Num(15))
      [] probability.t \in {"list", "dict"} ->
           Raise("TypeError", "unhashable type: '" \o TypeName(probability) \o "'")
      [] OTHER -> Ok(Num(50))

\* if "recovery_percentage" not in result: look it up from recovery_probability
EnsurePercentage(res) ==
    IF ~res.ok THEN res
    ELSE LET has == HasKey(res.val, "recovery_percentage")
             prob == ResultGet(res.val, "recovery_probability", Str("MODERATE"))
         IN IF ~has.ok THEN has
            ELSE IF has.val THEN res
            ELSE IF ~prob.ok THEN prob
            ELSE IF ~ProbMap(prob.val).ok THEN ProbMap(prob.val)
            ELSE SetItem(res.val, "recovery_percentage", ProbMap(prob.val).val)

\* the completion of a decoded document, in the order of _parse_response
CompleteFields(result) ==
    EnsurePercentage(
      EnsureProbability(
        EnsureField(
          EnsureField(
            EnsureField(
              EnsureField(Ok(result), "risk_level", Str("Unknown")),
              "reason", Str("No explanation provided")),
            "confidence", Float(80)),
          "recommended_action", Str("Follow standard recovery procedure"))))

\* a keyword scan that looks for LOW first
ExtractRiskLevel_LowFirst(text) ==
    IF Contains(Upper(text), "LOW") THEN "LOW"
    ELSE IF Contains(Upper(text), "MEDIUM") THEN "MEDIUM"
    ELSE IF Contains(Upper(text), "HIGH") THEN "HIGH"
    ELSE "UNKNOWN"

\* _extract_risk_level
ExtractRiskLevel(text) ==
    LET text_upper == Upper(text)
    IN IF Contains(text_upper, "HIGH RISK") \/ Contains(text_upper, "HIGH") THEN "HIGH"
       ELSE IF Contains(text_upper, "MEDIUM RISK") \/ Contains(text_upper, "MEDIUM") THEN "MEDIUM"
       ELSE IF Contains(text_upper, "LOW RISK") \/ Contains(text_upper, "LOW") THEN "LOW"
       ELSE "UNKNOWN"

\* the longest reason the heuristic result keeps
ReasonLimit == 200

\* response_text[:200] if len(response_text) > 200 else response_text
TruncateReason(response_text) ==
    IF Len(response_text) > ReasonLimit
    THEN SubSeq(response_text, 1, ReasonLimit)
    ELSE response_text

\* the result built when the text does not decode
HeuristicResult(response_text) ==
    Dict([risk_level |-> Str(ExtractRiskLevel(response_text)),
          confidence |-> Float(70),
          reason |-> Str(TruncateReason(response_text)),
          recommended_action |-> Str("Manual review recommended")])

\* _parse_response: only a JSONDecodeError is handled here
ParseResponse(response_text) ==
    LET decoded == JsonLoads(CleanResponse(response_text))
    IN IF decoded.ok THEN CompleteFields(decoded.val)
       ELSE Ok(HeuristicResult(response_text))

\* the result classify_risk returns for an exception
ErrorSentinel(message) ==
    Dict([risk_level |-> Str("ERROR"),
          confidence |-> Float(0),
          reason |-> Str("API Error: " \o message),
          recommended_action |-> Str("Manual review required")])

\* What the service may do: answer with a text, or fail.
ServiceText(text) == [kind |-> "text", text |-> text]
ServiceFailure(message) == [kind |-> "failure", msg |-> message]

\* a classify_risk that lets the failure of the call through
GeminiClassifyRisk_Propagating(case_context, response) ==
    IF response.kind = "failure" THEN Raise("Exception", response.msg)
    ELSE ParseResponse(response.text)

\* GeminiRiskClassifier.classify_risk: every exception of the call and of the
\* parse ends in the sentinel
GeminiClassifyRisk(case_context, response) ==
    IF response.kind = "failure" THEN Ok(ErrorSentinel(response.msg))
    ELSE LET parsed == ParseResponse(response.text)
         IN IF parsed.ok THEN parsed ELSE Ok(ErrorSentinel(parsed.msg))

----------------------------------------------------------------------------
(* The rule-based classifier: DemoGeminiClassifier *)

HighRiskIndicators ==
    <<"critically overdue", "exhaustive recovery attempts", "very high amount",
      "immediate action required">>

LowRiskIndicators ==
    <<"recently overdue", "no recovery attempts", "low amount", "within grace period">>

\* sum(1 for ind in indicators if ind in context_lower)
Score(indicators, context_lower) ==
    Cardinality({i \in 1..Len(indicators) : Contains(context_lower, indicators[i])})

\* the score from which a list decides
ScoreThreshold == 2

\* the rule-based classification with the two lists consulted in the other order
DemoClassifyRisk_LowFirst(case_context) ==
    LET context_lower == Lower(case_context)
        high_score == Score(HighRiskIndicators, context_lower)
        low_score == Score(LowRiskIndicators, context_lower)
    IN IF low_score >= ScoreThreshold
       THEN Ok(Dict([risk_level |-> Str("LOW"), confidence |-> Float(90),
                     recovery_probability |-> Str("VERY HIGH"),
                     recovery_percentage |-> Num(85),
                     reason |-> Str("Case is recently overdue with low amount. Customer likely to pay with gentle reminder."),
                     recommended_action |-> Str("Send automated payment reminder. Schedule follow-up call in 3 days.")]))
       ELSE IF high_score >= ScoreThreshold
       THEN Ok(Dict([risk_level |-> Str("HIGH"), confidence |-> Float(85),
                     recovery_probability |-> Str("LOW"),
                     recovery_percentage |-> Num(30),
                     reason |-> Str("Case shows multiple high-risk indicators including long overdue duration and multiple failed recovery attempts."),
                     recommended_action |-> Str("Escalate to legal team for formal notice. Consider asset recovery if secured loan.")]))
       ELSE Ok(Dict([risk_level |-> Str("MEDIUM"), confidence |-> Float(75),
                     recovery_probability |-> Str("MODERATE"),
                     recovery_percentage |-> Num(55),
                     reason |-> Str("Case shows mixed indicators. Moderate attention required with proactive follow-up."),
                     recommended_action |-> Str("Assign to recovery agent for personal follow-up. Offer payment plan options.")]))

\* DemoGeminiClassifier.classify_risk
DemoClassifyRisk(case_context) ==
    LET context_lower == Lower(case_context)
        high_score == Score(HighRiskIndicators, context_lower)
        low_score == Score(LowRiskIndicators, context_lower)
    IN IF high_score >= ScoreThreshold
       THEN Ok(Dict([risk_level |-> Str("HIGH"), confidence |-> Float(85),
                     recovery_probability |-> Str("LOW"),
                     recovery_percentage |-> Num(30),
                     reason |-> Str("Case shows multiple high-risk indicators including long overdue duration and multiple failed recovery attempts."),
                     recommended_action |-> Str("Escalate to legal team for formal notice. Consider asset recovery if secured loan.")]))
       ELSE IF low_score >= ScoreThreshold
       THEN Ok(Dict([risk_level |-> Str("LOW"), confidence |-> Float(90),
                     recovery_probability |-> Str("VERY HIGH"),
                     recovery_percentage |-> Num(85),
                     reason |-> Str("Case is recently overdue with low amount. Customer likely to pay with gentle reminder."),
                     recommended_action |-> Str("Send automated payment reminder. Schedule follow-up call in 3 days.")]))
       ELSE Ok(Dict([risk_level |-> Str("MEDIUM"), confidence |-> Float(75),
                     recovery_probability |-> Str("MODERATE"),
                     recovery_percentage |-> Num(55),
                     reason |-> Str("Case shows mixed indicators. Moderate attention required with proactive follow-up."),
                     recommended_action |-> Str("Assign to recovery agent for personal follow-up. Offer payment plan options.")]))

----------------------------------------------------------------------------
(* The orchestrator: RiskClassificationPipeline *)

\* the result process_case starts from
EmptyResult(case_id) ==
    [success |-> FALSE, case_id |-> case_id, case_data |-> None,
     processed_context |-> None, classification |-> None,
     decision_record |-> None, error |-> None]

\* not case_data
CaseMissing(case_data) ==
    case_data.t = "none" \/ (case_data.t = "dict" /\ DOMAIN case_data.v = {})

\* a not-found message that leaves the case ID out
NotFoundMessage_NoId(case_id) == "Case not found in database"

\* f"Case {case_id} not found in database"
NotFoundMessage(case_id) == "Case " \o Format(case_id) \o " not found in database"

\* what the line printing customer_name and f"{amount:,}" may raise
FoundLine(case) ==
    IF "customer_name" \notin DOMAIN case THEN Raise("KeyError", "'customer_name'")
    ELSE IF "amount" \notin DOMAIN case THEN Raise("KeyError", "'amount'")
    ELSE IF case["amount"].t = "none"
         THEN Raise("TypeError", "unsupported format string passed to NoneType.__format__")
    ELSE IF case["amount"].t = "str"
         THEN Raise("ValueError", "Cannot specify ',' with 's'.")
    ELSE Ok(None)

\* what the line printing classification['risk_level'] may raise
RiskLine(classification) ==
    CASE classification.t = "dict" ->
           IF "risk_level" \in DOMAIN classification.v THEN Ok(None)
           ELSE Raise("KeyError", "'risk_level'")
      [] classification.t = "str" ->
           Raise("TypeError", "string indices must be integers, not 'str'")
      [] classification.t = "list" ->
           Raise("TypeError", "list indices must be integers or slices, not str")
      [] OTHER -> Raise("TypeError", "'" \o TypeName(classification)
                                     \o "' object is not subscriptable")

\* a store step that runs whatever the flag says
ShouldStore_Always(save_result, classification) == TRUE

\* a store step that skips the failure sentinel
ShouldStore_Structural(save_result, classification) ==
    save_result /\ Get(classification.v, "risk_level") # Str("ERROR")

\* if save_result: the store step runs whatever the classification says
ShouldStore(save_result, classification) == save_result

\* self.classifier.classify_risk(context)
ClassifyRisk(demo, case_context, response) ==
    IF demo THEN DemoClassifyRisk(case_context)
    ELSE GeminiClassifyRisk(case_context, response)

\* What a process_case call leaves: the ledger, the file, the result returned,
\* the calls it made, in order, and the exception its except clause caught.
Outcome(records, dsk, ret, steps, caught) ==
    [results |-> records, disk |-> dsk, ret |-> ret, steps |-> steps,
     caught |-> caught]

\* no exception reached the except clause
NotRaised == [ok |-> TRUE]

\* an except clause that drops the message
Failed_Silent(result, e) == result

\* the except clause: result["error"] = str(e)
Failed(result, e) == [result EXCEPT !.error = Str(e.msg)]

\* process_case
ProcessCaseCall(cases, records, dsk, demo, case_id, save_result, response, ts, io) ==
    LET result0 == EmptyResult(case_id)
        case_data == GetCaseById(cases, case_id)
        result1 == [result0 EXCEPT !.case_data = case_data]
        found == FoundLine(case_data.v)
        processed == Preprocess(case_data.v)
        context == GeneratePromptContext(processed.val)
        result2 == [result1 EXCEPT !.processed_context = Str(context)]
        classification == ClassifyRisk(demo, context, response)
        result3 == [result2 EXCEPT !.classification = classification.val]
        shown == RiskLine(classification.val)
        stored == StoreDecisionCall(records, dsk, case_id, case_data.v["customer_name"],
                                    case_data.v, classification.val.v, ts, io)
        fetch == <<"get_case_by_id">>
        prepare == fetch \o <<"preprocess">>
        render == prepare \o <<"generate_prompt_context">>
        classify == render \o <<"classify_risk">>
        store == classify \o <<"store_decision">>
    IN IF CaseMissing(case_data)
       THEN Outcome(records, dsk,
                    [result0 EXCEPT !.error = Str(NotFoundMessage(case_id))], fetch,
                    NotRaised)
       ELSE IF ~found.ok
            THEN Outcome(records, dsk, Failed(result1, found), fetch, found)
       ELSE IF ~processed.ok
            THEN Outcome(records, dsk, Failed(result1, processed), prepare, processed)
       ELSE IF ~classification.ok
            THEN Outcome(records, dsk, Failed(result2, classification), classify,
                         classification)
       ELSE IF ~shown.ok
            THEN Outcome(records, dsk, Failed(result3, shown), classify, shown)
       ELSE IF ~ShouldStore(save_result, classification.val)
            THEN Outcome(records, dsk, [result3 EXCEPT !.success = TRUE], classify,
                         NotRaised)
       ELSE IF ~stored.ret.ok
            THEN Outcome(stored.results, stored.disk, Failed(result3, stored.ret),
                         store, stored.ret)
       ELSE Outcome(stored.results, stored.disk,
                    [result3 EXCEPT !.decision_record = Dict(stored.ret.val),
                                    !.success = TRUE], store, NotRaised)

----------------------------------------------------------------------------
(* Inputs *)

RECURSIVE Repeat(_, _)
Repeat(s, n) == IF n = 0 THEN "" ELSE s \o Repeat(s, n - 1)

\* a text longer than the reason the heuristic keeps
LongText == Repeat("0123456789", 21)

\* the pieces the model's prose answers are put together from
ProseWords ==
    {"", "The case looks ", "HIGH", "high", "Medium", "LOW", "low",
     " risk overall.", "allowed", LongText}

ProseTexts == {a \o b \o c : a \in ProseWords, b \in ProseWords, c \in ProseWords}

\* how the model may wrap the JSON text it was asked for
Wrappings == {"plain", "json_fence", "bare_fence", "padded", "upper_fence", "prefixed"}

Wrap(w, text) ==
    CASE w = "plain" -> text
      [] w = "json_fence" -> Fence \o "json\n" \o text \o "\n" \o Fence
      [] w = "bare_fence" -> Fence \o "\n" \o text \o "\n" \o Fence \o "\n"
      [] w = "padded" -> "\n  " \o text \o " \n"
      [] w = "upper_fence" -> Fence \o "JSON\n" \o text \o "\n" \o Fence
      [] OTHER -> "Here is the assessment: " \o text

\* the wrappings _parse_response undoes
Decodable == {"plain", "json_fence", "bare_fence", "padded"}

FailureMessages == {"503 service unavailable", "Invalid API key"}

\* everything the service is made to do when the classifier alone is checked
ClassifierResponses ==
    {ServiceFailure(m) : m \in FailureMessages}
    \cup {ServiceText(Wrap(w, JsonText[x])) : w \in Wrappings, x \in JsonDocuments}
    \cup {ServiceText(t) : t \in ProseTexts}

FullHigh ==
    Dict([risk_level |-> Str("HIGH"), confidence |-> Float(95),
          recovery_probability |-> Str("LOW"), recovery_percentage |-> Num(90),
          reason |-> Str("Overdue for long."),
          recommended_action |-> Str("Call the customer.")])

\* what the service is made to do when a whole pipeline run is checked
PipelineResponses ==
    {ServiceFailure("503 service unavailable"),
     ServiceText(JsonText[FullHigh]),
     ServiceText("The case looks HIGH risk overall."),
     ServiceText(JsonText[Str(AllKeysText)])}

\* what the write of the file may do in a pipeline run that stores
PipelineIoOutcomes == {"ok", "write_error"}

\* the rule-based classifier asks the service nothing
NoResponse == ServiceFailure("not called")

\* the arguments store_decision is called with when the ledger alone is checked
LedgerCases == {CaseHigh, [case_id |-> Str("CASE004"), customer_name |-> Str("Priya Patel")]}

LedgerClassifications ==
    {DemoClassifyRisk("critically overdue - immediate action required").val.v,
     ErrorSentinel("503 service unavailable").v}

LedgerCaseIds == {c["case_id"] : c \in LedgerCases} \cup {UnknownId}

RiskLevelInputs == {Str("HIGH"), Str("MEDIUM"), Str("LOW"), Str("ERROR")}

----------------------------------------------------------------------------
(* The state machine *)

\* the threads that may be inside store_decision at once
Writers == {"first", "second"}

\* a writer that is not inside store_decision
Idle == [pc |-> "idle"]

\* no store_decision call is in flight
NoCalls == [w \in Writers |-> Idle]

\* no second ResultStorage has been constructed
NoReplica == [built |-> FALSE, results |-> <<>>]

Init ==
    /\ results = <<>>
    /\ disk = Document(<<>>)
    /\ issued = {}
    /\ io_failures = 0
    /\ demo_mode \in BOOLEAN
    /\ loaded_cases = Cases
    /\ calls = NoCalls
    /\ replica = NoReplica
    /\ last = [op |-> "init"]

\* the environment lets a write fail while failures are left to spend
MayEnd(io) == io = "ok" \/ io_failures < MaxIoFailures

\* ResultStorage.store_decision
StoreDecision(case, classification_result, ts, io) ==
    /\ Len(results) < MaxLedger
    /\ MayEnd(io)
    /\ \E out \in {StoreDecisionCall(results, disk, case["case_id"], case["customer_name"],
                                    case, classification_result, ts, io)} :
          /\ results' = out.results
          /\ disk' = out.disk
          /\ issued' = IF out.ret.ok THEN issued \cup {out.ret.val.decision_id} ELSE issued
          /\ io_failures' = IF out.ret.ok THEN io_failures ELSE io_failures + 1
          /\ last' = [op |-> "store_decision", ret |-> out.ret]
    /\ UNCHANGED <<demo_mode, loaded_cases, calls, replica>>

\* ResultStorage.clear_all
ClearAll(io) ==
    /\ MayEnd(io)
    /\ \E out \in {ClearAllCall(results, disk, io)} :
          /\ results' = out.results
          /\ disk' = out.disk
          /\ io_failures' = IF out.ret.ok THEN io_failures ELSE io_failures + 1
          /\ last' = [op |-> "clear_all", ret |-> out.ret]
    /\ UNCHANGED <<issued, demo_mode, loaded_cases, calls, replica>>

\* ResultStorage.get_all_decisions, and the pipeline's get_all_decisions
GetAllDecisions ==
    /\ last' = [op |-> "get_all_decisions", ret |-> GetAllDecisionsCall(results)]
    /\ UNCHANGED <<results, disk, issued, io_failures, demo_mode, loaded_cases, calls, replica>>

\* ResultStorage.get_decision_by_case
GetDecisionsOfCase(case_id) ==
    /\ last' = [op |-> "get_decision_by_case", case_id |-> case_id,
                ret |-> GetDecisionByCase(results, case_id)]
    /\ UNCHANGED <<results, disk, issued, io_failures, demo_mode, loaded_cases, calls, replica>>

\* ResultStorage.get_latest_decision
GetLatest(case_id) ==
    /\ last' = [op |-> "get_latest_decision", case_id |-> case_id,
                ret |-> GetLatestDecision(results, case_id)]
    /\ UNCHANGED <<results, disk, issued, io_failures, demo_mode, loaded_cases, calls, replica>>

\* ResultStorage.get_decisions_by_risk
GetByRisk(risk_level) ==
    /\ last' = [op |-> "get_decisions_by_risk", risk_level |-> risk_level,
                ret |-> GetDecisionsByRisk(results, risk_level)]
    /\ UNCHANGED <<results, disk, issued, io_failures, demo_mode, loaded_cases, calls, replica>>

\* ResultStorage.get_statistics, and the pipeline's get_statistics
GetStatistics ==
    /\ last' = [op |-> "get_statistics", ret |-> GetStatisticsCall(results)]
    /\ UNCHANGED <<results, disk, issued, io_failures, demo_mode, loaded_cases, calls, replica>>

\* RiskClassificationPipeline.get_all_cases
GetAllCases ==
    /\ last' = [op |-> "get_all_cases", ret |-> GetAllCasesCall(loaded_cases)]
    /\ UNCHANGED <<results, disk, issued, io_failures, demo_mode, loaded_cases, calls, replica>>

\* the ids the presentation layer looks up: one the source holds, one it does not
LookupIds == {Get(CaseLow, "case_id"), UnknownId}

\* CaseFetcher.get_case_by_id, as the presentation layer calls it
GetCase(case_id) ==
    /\ last' = [op |-> "get_case_by_id", case_id |-> case_id,
                ret |-> GetCaseById(loaded_cases, case_id)]
    /\ UNCHANGED <<results, disk, issued, io_failures, demo_mode, loaded_cases, calls, replica>>

\* the run called store_decision and the call raised
StoreFailed(out) ==
    out.steps[Len(out.steps)] = "store_decision" /\ ~out.ret.success

\* RiskClassificationPipeline.process_case
ProcessCase(case_id, save_result, response, ts, io) ==
    /\ Len(results) < MaxLedger
    /\ MayEnd(io)
    /\ \E out \in {ProcessCaseCall(loaded_cases, results, disk, demo_mode, case_id,
                                  save_result, response, ts, io)} :
          /\ results' = out.results
          /\ disk' = out.disk
          /\ issued' = IF out.ret.decision_record.t = "dict"
                       THEN issued \cup {out.ret.decision_record.v.decision_id}
                       ELSE issued
          /\ io_failures' = IF StoreFailed(out) THEN io_failures + 1 ELSE io_failures
          /\ last' = [op |-> "process_case", save_result |-> save_result,
                      ret |-> out.ret, steps |-> out.steps, caught |-> out.caught,
                      before |-> results, disk_before |-> disk]
    /\ UNCHANGED <<demo_mode, loaded_cases, calls, replica>>

\* GeminiRiskClassifier.classify_risk, called on its own
Classify ==
    /\ last.op = "generate_content"
    /\ last' = [op |-> "classify_risk", response |-> last.response,
                ret |-> GeminiClassifyRisk("", last.response)]
    /\ UNCHANGED <<results, disk, issued, io_failures, demo_mode, loaded_cases, calls, replica>>

\* The pipeline as the presentation layer drives it.
Next ==
    \/ \E case_id \in CaseIdInputs, save_result \in BOOLEAN :
         \E response \in (IF demo_mode THEN {NoResponse} ELSE PipelineResponses) :
           \E ts \in PipelineTimestamps,
              io \in (IF save_result THEN PipelineIoOutcomes ELSE {"ok"}) :
             ProcessCase(case_id, save_result, response, ts, io)
    \/ GetStatistics
    \/ GetAllDecisions
    \/ \E case_id \in LookupIds : GetCase(case_id)
    \/ GetAllCases

Spec == Init /\ [][Next]_vars

\* The ledger on its own, every operation of ResultStorage.
LedgerInit == Init /\ demo_mode

LedgerNext ==
    \/ \E case \in LedgerCases, cls \in LedgerClassifications :
         \E ts \in Timestamps, io \in IoOutcomes : StoreDecision(case, cls, ts, io)
    \/ \E io \in IoOutcomes : ClearAll(io)
    \/ GetAllDecisions
    \/ \E case_id \in LedgerCaseIds : GetDecisionsOfCase(case_id)
    \/ \E case_id \in LedgerCaseIds : GetLatest(case_id)
    \/ \E risk_level \in RiskLevelInputs : GetByRisk(risk_level)
    \/ GetStatistics

LedgerSpec == LedgerInit /\ [][LedgerNext]_vars

\* The LLM-backed classifier on its own, over every answer of the service.
ClassifierInit ==
    /\ results = <<>>
    /\ disk = Document(<<>>)
    /\ issued = {}
    /\ io_failures = 0
    /\ demo_mode = FALSE
    /\ loaded_cases = Cases
    /\ calls = NoCalls
    /\ replica = NoReplica
    /\ last \in {[op |-> "generate_content", response |-> r] : r \in ClassifierResponses}

ClassifierNext == Classify

ClassifierSpec == ClassifierInit /\ [][ClassifierNext]_vars


----------------------------------------------------------------------------
(* The rule-based classifier on its own: context texts in which a chosen set
   of the eight indicator phrases occurs, classified once and then again *)

\* the eight phrases, high-risk list first
AllIndicators == HighRiskIndicators \o LowRiskIndicators

\* a context text in which exactly the phrases of the set occur, as written or in capitals
ContextWith(phrases, capitals) ==
    LET chosen == SelectSeq(AllIndicators, LAMBDA p : p \in phrases)
        text == "Case: " \o JoinTexts(chosen, " ; ") \o "."
    IN IF capitals THEN Upper(text) ELSE text

DemoContexts ==
    {[phrases |-> S, capitals |-> c, context |-> ContextWith(S, c)] :
        S \in SUBSET {AllIndicators[i] : i \in 1..Len(AllIndicators)}, c \in BOOLEAN}

\* how often one context is classified
DemoCalls == 2

DemoInit ==
    /\ results = <<>>
    /\ disk = Document(<<>>)
    /\ issued = {}
    /\ io_failures = 0
    /\ demo_mode = TRUE
    /\ loaded_cases = Cases
    /\ calls = NoCalls
    /\ replica = NoReplica
    /\ last \in {[op |-> "demo_context", phrases |-> x.phrases, capitals |-> x.capitals,
                  context |-> x.context, calls |-> 0] : x \in DemoContexts}

\* one call of DemoGeminiClassifier.classify_risk
DemoClassify ==
    /\ last.op \in {"demo_context", "demo_classify_risk"}
    /\ last.calls < DemoCalls
    /\ \E out \in {DemoClassifyRisk(last.context)} :
          last' = [op |-> "demo_classify_risk", phrases |-> last.phrases,
                   capitals |-> last.capitals, context |-> last.context,
                   calls |-> last.calls + 1, ret |-> out]
    /\ UNCHANGED <<results, disk, issued, io_failures, demo_mode, loaded_cases, calls, replica>>

DemoNext == DemoClassify

DemoSpec == DemoInit /\ [][DemoNext]_vars


----------------------------------------------------------------------------
(* From a case to its rule-based classification: preprocess, then
   generate_prompt_context, then the demo classifier, over cases whose
   fields are drawn from the values around every threshold *)

AmountInputs == {0, 15000, 19999, 20000, 99999, 100000, 499999, 500000, 600000}
OverdueInputs == {0, 5, 15, 16, 45, 46, 90, 91, 150}
AttemptsInputs == {0, 1, 5, 6, 9}

\* customer names: an ordinary one, and one that spells two high-risk phrases
NameInputs == {"Priya Patel", "Very High Amount - Immediate Action Required Traders"}

\* customer types: a string, and the null a record may carry
CustomerTypeInputs == {Str("Individual"), None}

\* a case id that spells two high-risk phrases
PhrasedCaseId == "ESC / Exhaustive Recovery Attempts / Very High Amount"

ContextCases ==
    {[case_id |-> Str("CASE004"), customer_name |-> Str(n),
      amount |-> Num(a), days_overdue |-> Num(d), past_attempts |-> Num(k),
      customer_type |-> ct, loan_type |-> Str("Credit Card")] :
        n \in NameInputs, a \in AmountInputs, d \in OverdueInputs,
        k \in AttemptsInputs, ct \in CustomerTypeInputs}
    \cup
    {[case_id |-> Str(PhrasedCaseId), customer_name |-> Str("Priya Patel"),
      amount |-> Num(a), days_overdue |-> Num(d), past_attempts |-> Num(k),
      customer_type |-> Str("Individual"), loan_type |-> Str("Credit Card")] :
        a \in AmountInputs, d \in OverdueInputs, k \in AttemptsInputs}

ContextInit ==
    /\ results = <<>>
    /\ disk = Document(<<>>)
    /\ issued = {}
    /\ io_failures = 0
    /\ demo_mode = TRUE
    /\ loaded_cases = Cases
    /\ calls = NoCalls
    /\ replica = NoReplica
    /\ last \in {[op |-> "case", case |-> c] : c \in ContextCases}

\* preprocessor.preprocess(case_data)
DoPreprocess ==
    /\ last.op = "case"
    /\ \E out \in {Preprocess(last.case)} :
          last' = [op |-> "preprocess", case |-> last.case, ret |-> out]
    /\ UNCHANGED <<results, disk, issued, io_failures, demo_mode, loaded_cases, calls, replica>>

\* preprocessor.generate_prompt_context(preprocessed)
DoGeneratePromptContext ==
    /\ last.op = "preprocess"
    /\ last.ret.ok
    /\ \E out \in {GeneratePromptContext(last.ret.val)} :
          last' = [op |-> "generate_prompt_context", case |-> last.case,
                   preprocessed |-> last.ret.val, context |-> out]
    /\ UNCHANGED <<results, disk, issued, io_failures, demo_mode, loaded_cases, calls, replica>>

\* classifier.classify_risk(context) of the demo classifier
DoClassifyRisk ==
    /\ last.op = "generate_prompt_context"
    /\ \E out \in {DemoClassifyRisk(last.context)} :
          last' = [op |-> "classify_context", case |-> last.case,
                   preprocessed |-> last.preprocessed, context |-> last.context,
                   ret |-> out]
    /\ UNCHANGED <<results, disk, issued, io_failures, demo_mode, loaded_cases, calls, replica>>

ContextNext ==
    \/ DoPreprocess
    \/ DoGeneratePromptContext
    \/ DoClassifyRisk

ContextSpec == ContextInit /\ [][ContextNext]_vars


----------------------------------------------------------------------------
(* The statistics of ledgers of every small composition: a ledger that
   holds a chosen number of records of each risk level *)

\* the most records a counted ledger holds
MaxCounted == 8

\* the classification a record of a level was stored from
ClassificationOf(level) ==
    [risk_level |-> Str(level), confidence |-> Float(85),
     reason |-> Str("reason"), recommended_action |-> Str("action")]

\* the ledger after store_decision was called with these levels in turn
RECURSIVE StoredLevels(_)
StoredLevels(levels) ==
    IF levels = <<>> THEN <<>>
    ELSE LET earlier == StoredLevels(SubSeq(levels, 1, Len(levels) - 1))
         IN AppendRecord(earlier,
                DecisionRecord(earlier, Str("CASE004"), Str("Priya Patel"), CaseLow,
                               ClassificationOf(levels[Len(levels)]),
                               "2025-01-01T09:00:00"))

\* n times the level
LevelRun(level, n) == [i \in 1..n |-> level]

\* the ledgers counted: so many HIGH, MEDIUM, LOW and ERROR records
CountedLedgers ==
    {StoredLevels(LevelRun("HIGH", c[1]) \o LevelRun("MEDIUM", c[2])
                  \o LevelRun("LOW", c[3]) \o LevelRun("ERROR", c[4])) :
        c \in {x \in (0..MaxCounted) \X (0..MaxCounted) \X (0..MaxCounted) \X (0..1) :
                   x[1] + x[2] + x[3] + x[4] <= MaxCounted}}

StatisticsInit ==
    /\ results \in CountedLedgers
    /\ disk = Document(results)
    /\ issued = {results[i].decision_id : i \in 1..Len(results)}
    /\ io_failures = 0
    /\ demo_mode = TRUE
    /\ loaded_cases = Cases
    /\ calls = NoCalls
    /\ replica = NoReplica
    /\ last = [op |-> "init"]

StatisticsNext == GetStatistics

StatisticsSpec == StatisticsInit /\ [][StatisticsNext]_vars


----------------------------------------------------------------------------
(* Ledgers whose records carry every kind of stored level, in every order:
   the three levels counted, the two sentinels, and other spellings *)

\* the longest ledger of mixed levels
MaxMixed == 3

\* the levels a record is stored with
MixedLevels == {"HIGH", "MEDIUM", "LOW", "ERROR", "UNKNOWN", "Unknown", "low"}

\* the ledgers store_decision leaves when called with these levels in any order
MixedLedgers ==
    UNION {{StoredLevels(levels) : levels \in [1..n -> MixedLevels]} : n \in 0..MaxMixed}

ByRiskInit ==
    /\ results \in MixedLedgers
    /\ disk = Document(results)
    /\ issued = {results[i].decision_id : i \in 1..Len(results)}
    /\ io_failures = 0
    /\ demo_mode = TRUE
    /\ loaded_cases = Cases
    /\ calls = NoCalls
    /\ replica = NoReplica
    /\ last = [op |-> "init"]

ByRiskNext ==
    \/ GetStatistics
    \/ \E level \in MixedLevels : GetByRisk(Str(level))

ByRiskSpec == ByRiskInit /\ [][ByRiskNext]_vars


----------------------------------------------------------------------------
(* A ledger from its construction on: the backing file is in one of the
   states a start can find it in, the ledger is constructed over it, used,
   and constructed afresh over what it left behind *)

\* the backing file as a start can find it
StartupStores ==
    {Document(<<>>), Document(StoredLevels(<<"HIGH">>)), Corrupt, Missing, Unreadable, Garbled}

RestartInit ==
    /\ results = <<>>
    /\ disk \in StartupStores
    /\ issued = {}
    /\ io_failures = 0
    /\ demo_mode = TRUE
    /\ loaded_cases = Cases
    /\ calls = NoCalls
    /\ replica = NoReplica
    /\ last = [op |-> "start"]

\* a ledger object exists: its construction returned
Constructed == last.op # "start" /\ (last.op = "__init__" => last.ret.ok)

\* ResultStorage(storage_path): at the start, or afresh over the same store
Construct ==
    /\ \E out \in {ConstructCall(disk)} :
          /\ results' = out.results
          /\ disk' = out.disk
          /\ last' = [op |-> "__init__", ret |-> out.ret, store |-> disk,
                      before |-> results]
    /\ UNCHANGED <<issued, io_failures, demo_mode, loaded_cases, calls, replica>>

RestartNext ==
    \/ Construct
    \/ /\ Constructed
       /\ \/ \E case \in LedgerCases, cls \in LedgerClassifications :
               \E ts \in Timestamps, io \in IoOutcomes : StoreDecision(case, cls, ts, io)
          \/ \E io \in IoOutcomes : ClearAll(io)
          \/ GetAllDecisions

RestartSpec == RestartInit /\ [][RestartNext]_vars


----------------------------------------------------------------------------
(* store_decision under concurrent writers: two threads call it on one
   ResultStorage with no mutual exclusion, and the scheduler may switch
   between them after the record is built (lines 65-84), after the append
   (line 86) and after the save (line 87) *)

\* the calls that have built a record and not appended it yet
Building == {w \in Writers : calls[w].pc = "built"}

\* lines 65-84: read len(self.results), build the record
BuildRecord(w, case, classification_result, ts) ==
    /\ calls[w].pc = "idle"
    /\ Len(results) + Cardinality(Building) < MaxLedger
    /\ calls' = [v \in Writers |->
                   IF v = w
                   THEN [pc |-> "built",
                         rec |-> DecisionRecord(results, case["case_id"],
                                                case["customer_name"], case,
                                                classification_result, ts),
                         alone |-> \A u \in Writers \ {w} : calls[u].pc = "idle"]
                   ELSE IF calls[v].pc = "idle" THEN calls[v]
                   ELSE [calls[v] EXCEPT !.alone = FALSE]]
    /\ UNCHANGED <<results, disk, issued, io_failures, demo_mode, loaded_cases, replica, last>>

\* line 86: self.results.append(decision_record)
AppendBuilt(w) ==
    /\ calls[w].pc = "built"
    /\ results' = AppendRecord(results, calls[w].rec)
    /\ calls' = [calls EXCEPT ![w].pc = "appended"]
    /\ UNCHANGED <<disk, issued, io_failures, demo_mode, loaded_cases, replica, last>>

\* lines 87-89: self._save_results() writes the list as it is now; return
SaveAndReturn(w) ==
    /\ calls[w].pc = "appended"
    /\ disk' = SaveResults(results, disk, "ok").disk
    /\ issued' = issued \cup {calls[w].rec.decision_id}
    /\ last' = [op |-> "store_decision", writer |-> w, alone |-> calls[w].alone,
                ret |-> Ok(calls[w].rec)]
    /\ calls' = [calls EXCEPT ![w] = Idle]
    /\ UNCHANGED <<results, io_failures, demo_mode, loaded_cases, replica>>

ConcurrentInit == LedgerInit

ConcurrentNext ==
    \/ \E w \in Writers, case \in LedgerCases, cls \in LedgerClassifications :
         \E ts \in Timestamps : BuildRecord(w, case, cls, ts)
    \/ \E w \in Writers : AppendBuilt(w)
    \/ \E w \in Writers : SaveAndReturn(w)

ConcurrentSpec == ConcurrentInit /\ [][ConcurrentNext]_vars


----------------------------------------------------------------------------
(* Two ledgers over one backing file: every Streamlit session builds its own
   RiskClassificationPipeline, and so its own ResultStorage, over
   data/results.json.  results is the list of the ledger constructed first,
   replica the ledger a later session constructs *)

\* the step was made by the ledger constructed later
ByReplica == "instance" \in DOMAIN last

\* ResultStorage(storage_path) in a later session
ConstructReplica ==
    /\ \E out \in {ConstructCall(disk)} :
          /\ out.ret.ok
          /\ replica' = [built |-> TRUE, results |-> out.results]
          /\ disk' = out.disk
          /\ last' = [op |-> "__init__", instance |-> "replica", ret |-> out.ret]
    /\ UNCHANGED <<results, issued, io_failures, demo_mode, loaded_cases, calls>>

\* store_decision on the ledger of the later session
ReplicaStoreDecision(case, classification_result, ts) ==
    /\ replica.built
    /\ Len(replica.results) < MaxLedger
    /\ \E out \in {StoreDecisionCall(replica.results, disk, case["case_id"],
                                    case["customer_name"], case, classification_result,
                                    ts, "ok")} :
          /\ replica' = [replica EXCEPT !.results = out.results]
          /\ disk' = out.disk
          /\ issued' = issued \cup {out.ret.val.decision_id}
          /\ last' = [op |-> "store_decision", instance |-> "replica", ret |-> out.ret]
    /\ UNCHANGED <<results, io_failures, demo_mode, loaded_cases, calls>>

\* get_all_decisions on the ledger of the later session
ReplicaGetAllDecisions ==
    /\ replica.built
    /\ last' = [op |-> "get_all_decisions", instance |-> "replica",
                ret |-> GetAllDecisionsCall(replica.results)]
    /\ UNCHANGED <<results, disk, issued, io_failures, demo_mode, loaded_cases, calls, replica>>

SharedInit == LedgerInit

\* the classification the sessions store
SharedClassification ==
    DemoClassifyRisk("critically overdue - immediate action required").val.v

SharedNext ==
    \/ \E case \in LedgerCases, ts \in PipelineTimestamps :
         StoreDecision(case, SharedClassification, ts, "ok")
    \/ GetAllDecisions
    \/ ConstructReplica
    \/ \E case \in LedgerCases, ts \in PipelineTimestamps :
         ReplicaStoreDecision(case, SharedClassification, ts)
    \/ ReplicaGetAllDecisions

SharedSpec == SharedInit /\ [][SharedNext]_vars


----------------------------------------------------------------------------
(* Properties of the ledger, checked under LedgerSpec *)

\* the step is a store_decision call that returned
StoreReturned == last'.op = "store_decision" /\ last'.ret.ok

\* C1: a store_decision call that returns makes the ledger exactly one record
\* longer, the record it returns is the last element, and every record that was
\* in the ledger keeps its position and its field values.
C1_StoreIsAppendOnly ==
    [][StoreReturned =>
          /\ Len(results') = Len(results) + 1
          /\ results'[Len(results')] = last'.ret.val
          /\ \A i \in 1..Len(results) : results'[i] = results[i]]_vars

\* a store_decision call has returned on a ledger that held a record
C1_Witness ==
    /\ last.op = "store_decision"
    /\ last.ret.ok
    /\ Len(results) = 2
    /\ results[2] = last.ret.val

\* the number a decision identifier ends with
NumberOfId(id) == DigitsValue(SubSeq(id, 4, Len(id)))

\* C2: over the whole history of one ledger, clear_all included, every
\* identifier store_decision hands out is greater than every identifier it
\* handed out before, so the identifiers are pairwise distinct and increasing.
C2_IdsIncreaseAcrossHistory ==
    [][StoreReturned =>
          \A id \in issued : NumberOfId(id) < NumberOfId(last'.ret.val.decision_id)]_vars

\* the identifier written the way the contract words it, for a ledger this small
ExpectedId(n) == "DEC0000" \o ToString(n)

\* C3: store_decision on a ledger of n records returns a record whose
\* identifier is n+1 zero-padded to 5 digits after DEC; so in a ledger that
\* started empty the record at position i carries identifier i, and the
\* identifiers in the ledger are pairwise distinct.
C3_IdIsPosition ==
    /\ (last.op = "store_decision" /\ last.ret.ok) =>
          last.ret.val.decision_id = ExpectedId(Len(results))
    /\ \A i \in 1..Len(results) :
          /\ results[i].decision_id = ExpectedId(i)
          /\ Len(results[i].decision_id) = 8
    /\ \A i, j \in 1..Len(results) :
          i # j => results[i].decision_id # results[j].decision_id

\* a second record has been stored and returned
C3_Witness ==
    /\ last.op = "store_decision"
    /\ last.ret.ok
    /\ last.ret.val.decision_id = "DEC00002"
    /\ Len(results) = 2
    /\ results[1].decision_id = "DEC00001"

----------------------------------------------------------------------------
(* Properties of process_case, checked under Spec *)

\* the last call was process_case
Processed == last.op = "process_case"

\* the case source holds no case of this ID
AbsentFromSource(case_id) ==
    \A i \in 1..Len(Cases) : Get(Cases[i], "case_id") # case_id

\* the ledger and its file are as they were before the call
LedgerUntouched == results = last.before /\ disk = last.disk_before

\* C4: process_case with a case ID the case source does not hold returns
\* success=false and an error naming the ID, runs no step after the lookup,
\* returns an empty decision-record slot and leaves the ledger unchanged.
C4_UnknownCaseFails ==
    (Processed /\ AbsentFromSource(last.ret.case_id)) =>
        /\ last.ret.success = FALSE
        /\ last.ret.error.t = "str"
        /\ Contains(last.ret.error.v, last.ret.case_id.v)
        /\ last.steps = <<"get_case_by_id">>
        /\ last.ret.case_data = None
        /\ last.ret.processed_context = None
        /\ last.ret.classification = None
        /\ last.ret.decision_record = None
        /\ LedgerUntouched

\* process_case has run for an unknown ID on a ledger that holds a record
C4_Witness ==
    /\ Processed
    /\ last.ret.case_id = UnknownId
    /\ last.ret.error = Str("Case UNKNOWN_ID not found in database")
    /\ Len(results) = 1

\* C5: process_case always returns a result; whichever step fails, for every
\* case ID and store flag, the result has success=false and the error slot
\* holds the message of the failure.
C5_FailuresAreReturned ==
    Processed =>
        /\ last.ret.success \in BOOLEAN
        /\ ~last.caught.ok =>
              /\ last.ret.success = FALSE
              /\ last.ret.error = Str(last.caught.msg)
        /\ ~last.ret.success =>
              /\ last.ret.error.t = "str"
              /\ Len(last.ret.error.v) > 0
              /\ \/ ~last.caught.ok
                 \/ AbsentFromSource(last.ret.case_id)
        /\ last.ret.success => last.caught.ok /\ last.ret.error = None

\* the store step of a process_case call has failed
C5_Witness ==
    /\ Processed
    /\ last.steps[Len(last.steps)] = "store_decision"
    /\ last.ret.success = FALSE
    /\ last.ret.error = Str("[Errno 28] No space left on device")

\* the classification a process_case call returned is the failure sentinel
SentinelReturned ==
    /\ last.ret.classification.t = "dict"
    /\ Get(last.ret.classification.v, "risk_level") = Str("ERROR")

----------------------------------------------------------------------------
(* Properties of the LLM-backed classifier, checked under ClassifierSpec *)

\* classify_risk has run
Classified == last.op = "classify_risk"

\* the result classify_risk returned has these four fields and no other
FourFields(result) ==
    DOMAIN result.v = {"risk_level", "confidence", "reason", "recommended_action"}

\* C7: the LLM-backed classify_risk never raises; when the call of the service
\* fails it returns the sentinel: risk level ERROR, confidence 0.0, a reason
\* carrying the error message, recommended action "Manual review required".
C7_FailureGivesSentinel ==
    Classified =>
        /\ last.ret.ok
        /\ last.response.kind = "failure" =>
              /\ last.ret.val.t = "dict"
              /\ FourFields(last.ret.val)
              /\ last.ret.val.v.risk_level = Str("ERROR")
              /\ last.ret.val.v.confidence = Float(0)
              /\ last.ret.val.v.reason.t = "str"
              /\ EndsWith(last.ret.val.v.reason.v, last.response.msg)
              /\ last.ret.val.v.recommended_action = Str("Manual review required")

\* classify_risk has returned the sentinel for a failed call of the service
C7_Witness ==
    /\ Classified
    /\ last.response = ServiceFailure("503 service unavailable")
    /\ last.ret.ok
    /\ last.ret.val.v.reason = Str("API Error: 503 service unavailable")

\* the first of HIGH, MEDIUM, LOW that occurs in the text, whatever its case
FirstLevelIn(text) ==
    LET lowered == Lower(text)
    IN IF Contains(lowered, "high") THEN "HIGH"
       ELSE IF Contains(lowered, "medium") THEN "MEDIUM"
       ELSE IF Contains(lowered, "low") THEN "LOW"
       ELSE "UNKNOWN"

\* the text cut to at most 200 characters
CutTo200(text) == IF Len(text) <= 200 THEN text ELSE SubSeq(text, 1, 200)

\* the service answered with a text that does not decode as JSON
Undecodable ==
    /\ last.response.kind = "text"
    /\ ~JsonLoads(CleanResponse(last.response.text)).ok

\* C8: when the response does not decode as JSON, the result is heuristic:
\* risk level is the first of HIGH, MEDIUM, LOW (in that order, whatever the
\* case) that occurs in the text, else UNKNOWN; confidence is 0.7; reason is the
\* raw text cut to at most 200 characters.  "The case looks HIGH risk overall."
\* gives HIGH with confidence 0.7, and a text with both HIGH and LOW gives HIGH.
C8_HeuristicOnUndecodable ==
    (Classified /\ Undecodable) =>
        /\ last.ret.ok
        /\ last.ret.val.t = "dict"
        /\ last.ret.val.v.risk_level = Str(FirstLevelIn(last.response.text))
        /\ last.ret.val.v.confidence = Float(70)
        /\ last.ret.val.v.reason = Str(CutTo200(last.response.text))
        /\ Len(last.ret.val.v.reason.v) <= 200
        /\ last.response.text = "The case looks HIGH risk overall." =>
              last.ret.val.v.risk_level = Str("HIGH")
        /\ (Contains(last.response.text, "HIGH") /\ Contains(last.response.text, "LOW")) =>
              last.ret.val.v.risk_level = Str("HIGH")

\* a text longer than 200 characters that names LOW before HIGH has been
\* classified
C8_Witness ==
    /\ Classified
    /\ Undecodable
    /\ last.response.text = "LOW" \o "HIGH" \o LongText
    /\ last.ret.val.v.risk_level = Str("HIGH")
    /\ Len(last.ret.val.v.reason.v) = 200

\* C9: every result classify_risk returns, on every path, has all six fields.
C9_AllSixFields ==
    (Classified /\ last.ret.ok /\ last.ret.val.t = "dict") =>
        \A i \in 1..Len(ResultFields) : ResultFields[i] \in DOMAIN last.ret.val.v

\* the object the response decodes to, when it decodes to one
DecodedObject == JsonLoads(CleanResponse(last.response.text)).val.v

\* the service answered with a text that decodes to a JSON object
DecodesToObject ==
    /\ last.response.kind = "text"
    /\ JsonLoads(CleanResponse(last.response.text)).ok
    /\ JsonLoads(CleanResponse(last.response.text)).val.t = "dict"

\* the risk level completion reads: the one given, else the default put in
LevelRead(object) == GetOr(object, "risk_level", Str("Unknown"))

\* the recovery probability of the contract, the level compared in any case
ProbabilityFor(level) ==
    IF Lower(level) = "low" THEN "HIGH"
    ELSE IF Lower(level) = "medium" THEN "MODERATE"
    ELSE "LOW"

\* the recovery probability as the claim words it: the level compared as it is
ProbabilityForExact(level) ==
    IF level = Str("LOW") THEN Str("HIGH")
    ELSE IF level = Str("MEDIUM") THEN Str("MODERATE")
    ELSE Str("LOW")

\* the recovery probability completion ends with: the one given, else inferred
ProbabilityRead(object) ==
    IF "recovery_probability" \in DOMAIN object THEN object["recovery_probability"]
    ELSE Str(ProbabilityFor(LevelRead(object).v))

\* the percentage table of the contract
PercentageFor(probability) ==
    LET table == [p \in {Str("VERY HIGH"), Str("HIGH"), Str("MODERATE"), Str("LOW"),
                         Str("VERY LOW")} |->
                    CASE p = Str("VERY HIGH") -> 85
                      [] p = Str("HIGH") -> 70
                      [] p = Str("MODERATE") -> 50
                      [] p = Str("LOW") -> 30
                      [] OTHER -> 15]
    IN IF probability \in DOMAIN table THEN Num(table[probability]) ELSE Num(50)

\* completion cannot read the object: the probability is missing and the
\* level is no text, or the percentage is missing and the probability is a
\* list or an object
Uncompletable(object) ==
    \/ /\ "recovery_probability" \notin DOMAIN object
       /\ LevelRead(object).t # "str"
    \/ /\ "recovery_percentage" \notin DOMAIN object
       /\ "recovery_probability" \in DOMAIN object
       /\ object["recovery_probability"].t \in {"list", "dict"}

\* C10, as the code has it: in a decoded JSON object whose risk level is a
\* text, a missing recovery_probability is inferred from the level compared
\* without regard to case (LOW gives HIGH, MEDIUM gives MODERATE, anything
\* else LOW); a missing recovery_percentage is looked up from the given or
\* inferred probability in the table VERY HIGH=85, HIGH=70, MODERATE=50,
\* LOW=30, VERY LOW=15, default 50; the fields supplied pass through
\* unchanged.  An object completion cannot read gives the ERROR sentinel.
C10_FieldCompletion ==
    (Classified /\ DecodesToObject) =>
        /\ last.ret.ok
        /\ last.ret.val.t = "dict"
        /\ Uncompletable(DecodedObject) =>
              /\ FourFields(last.ret.val)
              /\ last.ret.val.v.risk_level = Str("ERROR")
        /\ ~Uncompletable(DecodedObject) =>
              /\ \A k \in DOMAIN DecodedObject : last.ret.val.v[k] = DecodedObject[k]
              /\ last.ret.val.v.recovery_probability = ProbabilityRead(DecodedObject)
              /\ "recovery_percentage" \notin DOMAIN DecodedObject =>
                    last.ret.val.v.recovery_percentage =
                        PercentageFor(ProbabilityRead(DecodedObject))
              /\ (/\ "recovery_percentage" \notin DOMAIN DecodedObject
                  /\ Get(DecodedObject, "recovery_probability") = Str("HIGH")) =>
                    last.ret.val.v.recovery_percentage = Num(70)

\* an object with risk level MEDIUM and neither recovery field has been completed
C10_Witness ==
    /\ Classified
    /\ DecodesToObject
    /\ DOMAIN DecodedObject = {"risk_level"}
    /\ DecodedObject["risk_level"] = Str("MEDIUM")
    /\ last.ret.val.v.recovery_probability = Str("MODERATE")
    /\ last.ret.val.v.recovery_percentage = Num(50)

\* C10, as the claim words it: in every decoded object with a risk level, a
\* missing recovery_probability is HIGH for LOW, MODERATE for MEDIUM and LOW
\* for anything else.
C10_InferredFromExactLevel ==
    (/\ Classified
     /\ DecodesToObject
     /\ "risk_level" \in DOMAIN DecodedObject
     /\ "recovery_probability" \notin DOMAIN DecodedObject) =>
        /\ last.ret.ok
        /\ last.ret.val.t = "dict"
        /\ Get(last.ret.val.v, "recovery_probability") =
              ProbabilityForExact(DecodedObject["risk_level"])

----------------------------------------------------------------------------
(* Properties of the rule-based classifier, checked under DemoSpec *)

\* how many phrases of a list are among the chosen ones
Occurring(indicators, phrases) ==
    Cardinality({i \in 1..Len(indicators) : indicators[i] \in phrases})

\* the verdict the two counts call for: level, confidence, probability, percentage
VerdictFor(high, low) ==
    IF high >= 2 THEN <<"HIGH", 85, "LOW", 30>>
    ELSE IF low >= 2 THEN <<"LOW", 90, "VERY HIGH", 85>>
    ELSE <<"MEDIUM", 75, "MODERATE", 55>>

\* the four deciding fields of a returned classification
VerdictOf(ret) ==
    <<Get(ret.val.v, "risk_level").v, Get(ret.val.v, "confidence").v,
      Get(ret.val.v, "recovery_probability").v, Get(ret.val.v, "recovery_percentage").v>>

\* C11: a rule-based classification is decided by the two counts of occurring
\* indicator phrases alone, whatever their letter case (two high-risk phrases
\* give HIGH/0.85/LOW/30 even beside two low-risk ones, else two low-risk
\* phrases give LOW/0.90/VERY HIGH/85, else MEDIUM/0.75/MODERATE/55); a second
\* call on the same text returns the same result, and no call changes the
\* ledger, the store or the pipeline's mode.
C11_DecidedByCounts ==
    [][last'.op = "demo_classify_risk" =>
          /\ last'.ret.ok
          /\ VerdictOf(last'.ret) =
                VerdictFor(Occurring(HighRiskIndicators, last'.phrases),
                           Occurring(LowRiskIndicators, last'.phrases))
          /\ last.op = "demo_classify_risk" => last'.ret = last.ret
          /\ UNCHANGED <<results, disk, issued, io_failures, demo_mode, loaded_cases, calls, replica>>]_vars

\* a text in capitals with two phrases of each list has been classified twice
C11_Witness ==
    /\ last.op = "demo_classify_risk"
    /\ last.calls = 2
    /\ last.capitals
    /\ Occurring(HighRiskIndicators, last.phrases) = 2
    /\ Occurring(LowRiskIndicators, last.phrases) = 2
    /\ Get(last.ret.val.v, "risk_level") = Str("HIGH")

----------------------------------------------------------------------------
(* Properties of preprocessing and of the end-to-end rule-based
   classification, checked under ContextSpec *)

\* the case of the state has been rendered and classified
ContextClassified == last.op = "classify_context"

\* the three numbers of the state's case
AmountOf == Get(last.case, "amount").v
DaysOf == Get(last.case, "days_overdue").v
AttemptsOf == Get(last.case, "past_attempts").v

\* small, fresh and never chased
LowProfile == AmountOf < 20000 /\ DaysOf <= 15 /\ AttemptsOf = 0

\* very large, long overdue and chased more than five times
HighProfile == AmountOf >= 500000 /\ DaysOf > 90 /\ AttemptsOf > 5

\* how many high-risk phrases the case's own texts spell, in any letter case
SpelledByCase ==
    Score(HighRiskIndicators,
          Lower(Format(Get(last.case, "case_id")) \o "\n"
                \o Format(Get(last.case, "customer_name")) \o "\n"
                \o Format(Get(last.case, "loan_type"))))

\* C12 as stated: every classified case of the low profile is LOW, and every
\* classified case of the high profile is HIGH with confidence 0.85.
C12_ProfilesDecide ==
    ContextClassified =>
       /\ LowProfile => Get(last.ret.val.v, "risk_level") = Str("LOW")
       /\ HighProfile => /\ Get(last.ret.val.v, "risk_level") = Str("HIGH")
                         /\ Get(last.ret.val.v, "confidence") = Float(85)

\* C12: of the cases whose context can be rendered, every one of the high
\* profile is classified HIGH with confidence 0.85, and every one of the low
\* profile whose own texts spell fewer than two high-risk phrases is
\* classified LOW; a case whose context cannot be rendered is not classified.
C12_ProfilesDecideUnlessSpelled ==
    /\ ContextClassified =>
          /\ (LowProfile /\ SpelledByCase < ScoreThreshold)
                => Get(last.ret.val.v, "risk_level") = Str("LOW")
          /\ HighProfile => /\ Get(last.ret.val.v, "risk_level") = Str("HIGH")
                            /\ Get(last.ret.val.v, "confidence") = Float(85)
    /\ (last.op = "preprocess" /\ Get(last.case, "customer_type").t # "str")
          => ~last.ret.ok

\* the largest case of the low profile, under an ordinary name, has been classified
C12_Witness ==
    /\ ContextClassified
    /\ AmountOf = 19999 /\ DaysOf = 15 /\ AttemptsOf = 0
    /\ SpelledByCase = 0
    /\ Get(last.ret.val.v, "risk_level") = Str("LOW")

\* the case of the state has been preprocessed
Preprocessed == last.op = "preprocess" /\ last.ret.ok

\* the label an amount text opens with
AmountBucket(text) ==
    LET labels == {b \in {"Low", "Medium", "High", "Very high"} :
                       StartsWith(text, b \o " amount (")}
    IN IF labels = {} THEN "?" ELSE CHOOSE b \in labels : TRUE

\* the label an overdue text opens with
OverdueBucket(text) ==
    LET labels == {b \in {"Recently", "Moderately", "Long", "Critically"} :
                       StartsWith(text, b \o " overdue (")}
    IN IF labels = {} THEN "?" ELSE CHOOSE b \in labels : TRUE

C15_OverdueBucketsInclusive ==
    Preprocessed =>
        OverdueBucket(last.ret.val.overdue_context) =
            (IF DaysOf <= 15 THEN "Recently"
             ELSE IF DaysOf <= 45 THEN "Moderately"
             ELSE IF DaysOf <= 90 THEN "Long"
             ELSE "Critically")

\* a case 90 days overdue has been preprocessed into the Long bucket
C15_Witness ==
    /\ Preprocessed
    /\ DaysOf = 90
    /\ OverdueBucket(last.ret.val.overdue_context) = "Long"

----------------------------------------------------------------------------
(* Properties of the ledger's queries, checked under LedgerSpec *)

\* get_statistics has just returned
StatisticsReturned == last.op = "get_statistics"

\* C16: get_statistics on an empty ledger, a fresh one or one emptied by
\* clear_all, returns total 0 and the three counts 0 and no percentage key.
C16_EmptyStatistics ==
    (StatisticsReturned /\ results = <<>>) =>
        /\ DOMAIN last.ret = {"total", "high", "medium", "low"}
        /\ last.ret.total = 0
        /\ last.ret.high = 0
        /\ last.ret.medium = 0
        /\ last.ret.low = 0

\* statistics were asked of a ledger that had held a record and was cleared
C16_Witness ==
    /\ StatisticsReturned
    /\ results = <<>>
    /\ issued # {}
    /\ last.ret.total = 0

\* every record of the ledger is HIGH, MEDIUM or LOW
AllThreeLevels ==
    \A i \in 1..Len(results) :
        results[i].ai_decision.risk_level \in {Str("HIGH"), Str("MEDIUM"), Str("LOW")}

PositionsOfCase == {i \in 1..Len(results) : results[i].case_id = last.case_id}

\* the k-th of those positions, counted from the front
PositionOfCase(k) ==
    CHOOSE i \in PositionsOfCase : Cardinality({j \in PositionsOfCase : j <= i}) = k

\* C18: get_decision_by_case returns exactly the ledger's records of that
\* case, in the order they were appended; get_latest_decision returns the one
\* of them appended last, whatever the timestamps say, and None when the case
\* has no record.
C18_ByCaseInAppendOrder ==
    /\ last.op = "get_decision_by_case" =>
          /\ Len(last.ret) = Cardinality(PositionsOfCase)
          /\ \A k \in 1..Len(last.ret) : last.ret[k] = results[PositionOfCase(k)]
    /\ last.op = "get_latest_decision" =>
          IF PositionsOfCase = {} THEN last.ret = None
          ELSE last.ret = Dict(results[PositionOfCase(Cardinality(PositionsOfCase))])

\* the latest decision was asked of a case whose second record carries the
\* earlier timestamp
C18_Witness ==
    /\ last.op = "get_latest_decision"
    /\ Len(results) = 2
    /\ PositionsOfCase = {1, 2}
    /\ results[1].timestamp = "2025-01-02T10:00:00"
    /\ results[2].timestamp = "2025-01-01T09:00:00"
    /\ last.ret = Dict(results[2])

----------------------------------------------------------------------------
(* Properties of the ledger and its backing store, checked under RestartSpec *)

\* store_decision or clear_all has just returned
MutatorReturned == last.op \in {"store_decision", "clear_all"} /\ last.ret.ok

\* a ledger has just been constructed, or its construction has just failed
ConstructionEnded == last.op = "__init__"

\* C19: when store_decision or clear_all returns, the persisted document is
\* the whole in-memory sequence; and a ledger constructed afresh over a store
\* that holds the in-memory sequence has that same sequence as its
\* get_all_decisions.
C19_PersistedBeforeReturn ==
    /\ MutatorReturned => disk = Document(results)
    /\ (ConstructionEnded /\ last.store = Document(last.before)) =>
          /\ last.ret.ok
          /\ GetAllDecisionsCall(results) = last.before

\* a ledger holding a record it stored has been constructed afresh over its store
C19_Witness ==
    /\ ConstructionEnded
    /\ last.before # <<>>
    /\ issued # {}
    /\ last.store = Document(last.before)
    /\ results = last.before

\* C20 as stated: constructing the ledger never fails, and over a store that
\* is missing, unreadable or not decodable it yields an empty ledger.
C20_StartupNeverFails ==
    ConstructionEnded =>
        /\ last.ret.ok
        /\ last.store.kind \in {"missing", "unreadable", "corrupt", "garbled"}
              => results = <<>>

----------------------------------------------------------------------------
(* Properties of the surface the presentation layer drives, checked under Spec *)

\* the operations of the surface that only read
ReadOperations == {"get_all_cases", "get_case_by_id", "get_all_decisions", "get_statistics"}

\* C21: list all cases, get case by id, get all decisions and get statistics
\* leave the ledger, its document and the case source as they were; no
\* operation of the surface changes the case source; and whatever the
\* operation, the ledger afterwards begins with the records it held before,
\* unaltered and in place.
C21_OnlyProcessCaseChangesState ==
    [][/\ last'.op \in ReadOperations => UNCHANGED <<results, disk, loaded_cases>>
       /\ loaded_cases' = loaded_cases
       /\ Len(results') >= Len(results)
       /\ SubSeq(results', 1, Len(results)) = results]_vars

\* a case was looked up by id while the ledger held a record
C21_Witness ==
    /\ last.op = "get_case_by_id"
    /\ last.ret.t = "dict"
    /\ results # <<>>

----------------------------------------------------------------------------
(* Properties of store_decision under concurrent writers, checked under
   ConcurrentSpec *)

\* C22: the identifier of a record never exceeds its position, and a call
\* that ran with no other call in flight leaves its record at the position
\* its identifier names; two calls that interleave can leave two different
\* records with one identifier (the witness).
C22_SerialCallsNumberByPosition ==
    /\ \A i \in 1..Len(results) : IdNumber(results[i].decision_id) <= i
    /\ (last.op = "store_decision" /\ last.alone) =>
          /\ IdNumber(last.ret.val.decision_id) \in 1..Len(results)
          /\ results[IdNumber(last.ret.val.decision_id)] = last.ret.val

\* two different records of the ledger carry the same decision identifier
C22_Witness ==
    \E i, j \in 1..Len(results) :
        /\ i < j
        /\ results[i].decision_id = results[j].decision_id
        /\ results[i] # results[j]

----------------------------------------------------------------------------
(* Further properties of the LLM-backed classifier, checked under
   ClassifierSpec *)

\* the risk levels of the contract
ContractLevels == {Str("HIGH"), Str("MEDIUM"), Str("LOW"), Str("ERROR"), Str("UNKNOWN")}

\* C23: the risk level of every result classify_risk returns is one of HIGH,
\* MEDIUM, LOW, ERROR, UNKNOWN.
C23_RiskLevelInContract ==
    (Classified /\ last.ret.ok /\ last.ret.val.t = "dict") =>
        Get(last.ret.val.v, "risk_level") \in ContractLevels

\* the service answered, and its text is no result object: it does not decode,
\* or decodes to something that is no object, or to an object whose risk
\* level is no text
NotAResultObject ==
    /\ last.response.kind = "text"
    /\ LET decoded == JsonLoads(CleanResponse(last.response.text))
       IN \/ ~decoded.ok
          \/ decoded.val.t # "dict"
          \/ /\ "risk_level" \in DOMAIN decoded.val.v
             /\ decoded.val.v["risk_level"].t # "str"

\* C24: whenever the service answered but its text is no result object,
\* classify_risk returns the heuristic result (the level scanned from the
\* text, confidence 0.7) and not the ERROR sentinel.
C24_MalformedGivesHeuristic ==
    (Classified /\ NotAResultObject) =>
        /\ last.ret.ok
        /\ last.ret.val.t = "dict"
        /\ FourFields(last.ret.val)
        /\ Get(last.ret.val.v, "confidence") = Float(70)
        /\ Get(last.ret.val.v, "risk_level") = Str(FirstLevelIn(last.response.text))

----------------------------------------------------------------------------
(* Further properties of process_case, checked under Spec *)

\* the calls of one process_case run, in the order the code makes them
StepOrder ==
    <<"get_case_by_id", "preprocess", "generate_prompt_context", "classify_risk",
      "store_decision">>

\* the step a run made last
LastStep == last.steps[Len(last.steps)]

\* C25: the calls a process_case run makes are a beginning of lookup,
\* preprocess, render, classify, store, each made once at most; the store is
\* made only after a classification was returned and put in the result, and
\* appends one record at most; a run that failed made no call after the one
\* that failed, and a run that found no case made the lookup only.
C25_StepsInOrder ==
    Processed =>
        /\ Len(last.steps) \in 1..Len(StepOrder)
        /\ last.steps = SubSeq(StepOrder, 1, Len(last.steps))
        /\ LastStep = "store_decision" => last.ret.classification # None
        /\ Len(results) <= Len(last.before) + 1
        /\ results # last.before => LastStep = "store_decision"
        /\ last.ret.case_data = None => last.steps = <<"get_case_by_id">>
        /\ last.ret.processed_context = None => Len(last.steps) <= 2
        /\ last.ret.classification = None => Len(last.steps) <= 4
        /\ (~last.ret.success /\ last.ret.classification = None)
              => results = last.before
        /\ last.ret.success =>
              LastStep = (IF last.save_result THEN "store_decision" ELSE "classify_risk")

\* a run with the LLM-backed classifier has made all five calls
C25_Witness ==
    /\ Processed
    /\ ~demo_mode
    /\ last.steps = StepOrder
    /\ last.ret.success
    /\ Len(results) = Len(last.before) + 1

\* a run with save_result=False that found its case
FlagOffFound == Processed /\ ~last.save_result /\ last.ret.case_data # None

\* the result of a run that stored nothing and succeeded
FilledButRecord ==
    /\ last.ret.success
    /\ last.ret.case_data # None
    /\ last.ret.processed_context.t = "str"
    /\ last.ret.classification # None
    /\ last.ret.decision_record = None

C28_FailureLeavesLedger ==
    (Processed /\ ~last.ret.success) => LedgerUntouched

----------------------------------------------------------------------------
(* Properties of two ledgers over one file, checked under SharedSpec *)

\* the decision records of a list, as a set
RecordsOf(records) == {records[i] : i \in 1..Len(records)}

\* C27: a ledger reads the backing file at its construction only.  A
\* store_decision that returns appends to the list of the ledger it was called
\* on, numbers the record from the length of that list, and writes that list
\* as the whole document, whatever the file held; it leaves the list of the
\* other ledger alone.  A construction takes the document as the list of the
\* ledger being constructed, and no other operation changes a list or the file.
C27_ReadsStoreAtConstructionOnly ==
    [][ /\ (last'.op = "store_decision" /\ ~ByReplica') =>
              /\ results' = AppendRecord(results, last'.ret.val)
              /\ last'.ret.val.decision_id = FormatDecisionId(Len(results) + 1)
              /\ disk' = Document(results')
              /\ replica' = replica
        /\ (last'.op = "store_decision" /\ ByReplica') =>
              /\ replica'.results = AppendRecord(replica.results, last'.ret.val)
              /\ last'.ret.val.decision_id = FormatDecisionId(Len(replica.results) + 1)
              /\ disk' = Document(replica'.results)
              /\ results' = results
        /\ last'.op = "__init__" =>
              /\ replica'.results = disk.doc
              /\ results' = results
              /\ disk' = disk
        /\ last'.op \notin {"store_decision", "__init__"} =>
              /\ results' = results
              /\ replica' = replica
              /\ disk' = disk ]_vars

\* the ledger constructed first has stored, and a record the later ledger had
\* written is gone from the file; the two ledgers hold different records
\* under one decision id
C27_Witness ==
    /\ last.op = "store_decision"
    /\ ~ByReplica
    /\ disk = Document(results)
    /\ \E r \in RecordsOf(replica.results) : r \notin RecordsOf(disk.doc)
    /\ \E r \in RecordsOf(replica.results), d \in RecordsOf(results) :
          r # d /\ r.decision_id = d.decision_id

----------------------------------------------------------------------------
(* The rule-based classification as a table of the case's numbers, checked
   under ContextSpec *)

\* how many indicator phrases, of either list, a text spells in any letter case
PhrasesIn(text) ==
    Score(HighRiskIndicators, Lower(text)) + Score(LowRiskIndicators, Lower(text))

\* customer name and loan type spell no indicator phrase
NameAndLoanPlain ==
    /\ PhrasesIn(Format(Get(last.case, "customer_name"))) = 0
    /\ PhrasesIn(Format(Get(last.case, "loan_type"))) = 0

\* very large and chased more than five times
LargeAndChased == AmountOf >= 500000 /\ AttemptsOf > 5

\* small and never chased
SmallAndUnchased == AmountOf < 20000 /\ AttemptsOf = 0

\* the table: days_overdue first, then amount and attempts
LevelByNumbers ==
    IF DaysOf > 90 THEN "HIGH"
    ELSE IF LargeAndChased THEN "HIGH"
    ELSE IF DaysOf <= 15 THEN "LOW"
    ELSE IF SmallAndUnchased THEN "LOW"
    ELSE "MEDIUM"

\* C29 as stated: a classified case whose customer name and loan type spell
\* no indicator phrase is HIGH above 90 days overdue; up to 15 days it is LOW
\* unless it is very large and chased more than five times, and then HIGH;
\* between, it is HIGH if very large and chased more than five times, LOW if
\* small and never chased, and MEDIUM otherwise.
C29_NumbersDecide ==
    (ContextClassified /\ NameAndLoanPlain) =>
        Get(last.ret.val.v, "risk_level") = Str(LevelByNumbers)

\* C29: a classified case whose case id, customer name and loan type spell no
\* indicator phrase is HIGH above 90 days overdue; up to 15 days it is LOW
\* unless it is very large and chased more than five times, and then HIGH;
\* between, it is HIGH if very large and chased more than five times, LOW if
\* small and never chased, and MEDIUM otherwise.
C29_NumbersDecideUnlessSpelled ==
    (/\ ContextClassified
     /\ NameAndLoanPlain
     /\ PhrasesIn(Format(Get(last.case, "case_id"))) = 0) =>
        Get(last.ret.val.v, "risk_level") = Str(LevelByNumbers)

\* a very large case, chased five times and 90 days overdue, under plain
\* texts, has been classified MEDIUM
C29_Witness ==
    /\ ContextClassified
    /\ NameAndLoanPlain
    /\ PhrasesIn(Format(Get(last.case, "case_id"))) = 0
    /\ AmountOf = 500000 /\ DaysOf = 90 /\ AttemptsOf = 5
    /\ Get(last.ret.val.v, "risk_level") = Str("MEDIUM")

----------------------------------------------------------------------------
(* Counting and selecting by stored level, checked under ByRiskSpec *)

\* the positions of the ledger whose record is stored with the level
PositionsAt(level) ==
    {i \in 1..Len(results) : results[i].ai_decision.risk_level = level}

\* the k-th of these positions, counted from the front of the ledger
PositionAt(level, k) ==
    CHOOSE i \in PositionsAt(level) :
        Cardinality({j \in PositionsAt(level) : j <= i}) = k

\* C30: the three counts of get_statistics are the numbers of records stored
\* as exactly HIGH, MEDIUM and LOW, so their sum is at most the total, and is
\* the total exactly when every record is stored as one of the three; a
\* record stored as ERROR, UNKNOWN, Unknown or low counts in the total only.
\* get_decisions_by_risk(L) returns the records whose stored level equals L,
\* all of them and no other, in ledger order.
C30_CountsAndSelection ==
    /\ StatisticsReturned =>
          /\ last.ret.total = Len(results)
          /\ last.ret.high = Cardinality(PositionsAt(Str("HIGH")))
          /\ last.ret.medium = Cardinality(PositionsAt(Str("MEDIUM")))
          /\ last.ret.low = Cardinality(PositionsAt(Str("LOW")))
          /\ last.ret.high + last.ret.medium + last.ret.low <= last.ret.total
          /\ (last.ret.high + last.ret.medium + last.ret.low = last.ret.total)
                <=> AllThreeLevels
    /\ last.op = "get_decisions_by_risk" =>
          /\ Len(last.ret) = Cardinality(PositionsAt(last.risk_level))
          /\ \A k \in 1..Len(last.ret) :
                last.ret[k] = results[PositionAt(last.risk_level, k)]

\* statistics of a ledger holding a LOW record between one stored as low and
\* one stored as Unknown: one counted of three
C30_Witness ==
    /\ StatisticsReturned
    /\ Len(results) = 3
    /\ results[1].ai_decision.risk_level = Str("low")
    /\ results[2].ai_decision.risk_level = Str("LOW")
    /\ results[3].ai_decision.risk_level = Str("Unknown")
    /\ last.ret.low = 1
    /\ last.ret.high + last.ret.medium + last.ret.low < last.ret.total

=============================================================================
